---- MODULE Spec2Model ----
(***************************************************************************)
(* Model of the SearchAI product pipeline: the JSON extraction and repair  *)
(* engine (src/src/utils/parser.ts), the per-record validator              *)
(* (zod schemas of src/unnamed/part_001), the normalization pipeline       *)
(* (src/src/services/filter.service.ts), the URL classifier                *)
(* (src/src/utils/logger.ts, lines 123-268), the image resolver and the    *)
(* search service (src/src/services/search.service.ts) with its shopping   *)
(* provider (src/unnamed/part_000).                                        *)
(*                                                                         *)
(* A text is a sequence of characters; a character is a one-element TLA+   *)
(* string, or a named token for the characters a TLA+ string cannot hold.  *)
(***************************************************************************)
EXTENDS Integers, Sequences, FiniteSets, TLC

VARIABLES content, given, op, ret, rawProducts, fop, fret,
          url, urlProducts, uop, uret,
          imageCache, calls, fetchLog,
          request, upstream, response, document, found

vars == <<content, given, op, ret, rawProducts, fop, fret, url, urlProducts, uop, uret,
          imageCache, calls, fetchLog, request, upstream, response, document, found>>

parserVars == <<content, given, op, ret>>

filterVars == <<rawProducts, fop, fret>>

\* The URL classifier: the text or the list given, the function applied, its result.
urlVars == <<url, urlProducts, uop, uret>>

\* The image resolver: the cache of the process, the calls of
\* resolveProductImages under way, and the page fetches issued so far.
imageVars == <<imageCache, calls, fetchLog>>

\* The search service: the request, what the provider answers, the response.
searchVars == <<request, upstream, response>>

\* The extraction from a page: the page given and what extractImageFromHtml
\* finds in it.
extractVars == <<document, found>>

serviceVars == <<urlVars, imageVars, searchVars, extractVars>>

UrlIdle == url = <<>> /\ urlProducts = <<>> /\ uop = "none" /\ uret = <<>>

\* new Map(): no key.
EmptyMap == [k \in {} |-> k]

ImageIdle == imageCache = EmptyMap /\ calls = <<>> /\ fetchLog = <<>>

SearchIdle == request = <<>> /\ upstream = <<>> /\ response = <<>>

ExtractIdle == document = <<>> /\ found = <<>>

ServiceIdle == UrlIdle /\ ImageIdle /\ SearchIdle /\ ExtractIdle

(***************************************************************************)
(* Characters                                                              *)
(***************************************************************************)
QT == "\""

BSL == "\\"

BT == "BT"

BOM == "BOM"

NUL == "NUL"

DEL == "DEL"

LF == "\n"

CR == "\r"

TAB == "\t"

SP == " "

\* A decoded \uXXXX escape: the code point itself is not tracked.
UCH == "U+"

Digits == {"0", "1", "2", "3", "4", "5", "6", "7", "8", "9"}

HexDigits == Digits \cup {"a", "b", "c", "d", "e", "f", "A", "B", "C", "D", "E", "F"}

\* The whitespace JSON.parse skips between tokens.
JsonWs == {SP, LF, CR, TAB}

\* What \s matches in a JavaScript regular expression and what trim()
\* strips, among the characters of the model: U+FEFF is part of both.
ReWs == {SP, LF, CR, TAB, BOM}

\* [\x00-\x1F\x7F] of fixCommonJsonIssues.
ControlChars == {NUL, DEL, LF, CR, TAB}

\* Characters JSON.parse refuses unescaped inside a string (below U+0020).
JsonStringForbidden == {NUL, LF, CR, TAB}

(***************************************************************************)
(* Text helpers                                                            *)
(***************************************************************************)
Min(a, b) == IF a < b THEN a ELSE b

Max(a, b) == IF a > b THEN a ELSE b

\* s.substring(i - 1): the text from position i (1-based) to the end.
From(s, i) == SubSeq(s, i, Len(s))

\* Whether position j of s exists and holds a character of set C.
IsOneOf(s, j, C) == j >= 1 /\ j <= Len(s) /\ s[j] \in C

\* Whether text p occurs in s at position i.
At(s, i, p) == i >= 1 /\ i + Len(p) - 1 <= Len(s) /\ SubSeq(s, i, i + Len(p) - 1) = p

\* The characters of s.
Range(s) == {s[i] : i \in 1..Len(s)}

\* The positions of s that satisfy P, in increasing order.
Positions(s, P(_)) == SelectSeq([i \in 1..Len(s) |-> i], P)

\* The first, the last element of ps, d when ps is empty.
FirstOr(ps, d) == IF ps = <<>> THEN d ELSE ps[1]

LastOr(ps, d) == IF ps = <<>> THEN d ELSE ps[Len(ps)]

\* The characters of s at the positions ps.
CharsAt(s, ps) == [k \in 1..Len(ps) |-> s[ps[k]]]

\* Number of positions of s holding a character of set C.
CountIn(s, C) == Len(SelectSeq(s, LAMBDA c : c \in C))

\* First position >= i of s holding character c, 0 when there is none.
IndexFrom(s, c, i) == FirstOr(Positions(s, LAMBDA j : j >= i /\ s[j] = c), 0)

\* s.indexOf(c) as a 1-based position, 0 when absent.
IndexOf(s, c) == IndexFrom(s, c, 1)

\* Last position of c in s, 0 when absent.
LastIndexOf(s, c) == LastOr(Positions(s, LAMBDA j : s[j] = c), 0)

\* First position >= i of s whose character is not in C (Len(s)+1 if none).
SkipSet(s, i, C) ==
    IF i > Len(s) \/ s[i] \notin C THEN i
    ELSE FirstOr(Positions(s, LAMBDA j : j > i /\ s[j] \notin C), Len(s) + 1)

\* Last position <= i of s whose character is not in C (0 if none).
SkipSetBack(s, i, C) ==
    IF i < 1 \/ s[i] \notin C THEN i
    ELSE LastOr(Positions(s, LAMBDA j : j < i /\ s[j] \notin C), 0)

\* The texts chunks[lo], ..., chunks[hi] one after the other.
RECURSIVE ConcatRange(_, _, _)
ConcatRange(chunks, lo, hi) ==
    IF lo > hi THEN <<>>
    ELSE IF lo = hi THEN chunks[lo]
    ELSE LET mid == (lo + hi) \div 2 IN
         ConcatRange(chunks, lo, mid) \o ConcatRange(chunks, mid + 1, hi)

ConcatAll(chunks) == ConcatRange(chunks, 1, Len(chunks))

\* String.prototype.trim().
Trim(s) == SubSeq(s, SkipSet(s, 1, ReWs), SkipSetBack(s, Len(s), ReWs))

\* n copies of character c.
Repeat(c, n) == [i \in 1..n |-> c]

\* toLowerCase() on the letters of the model.
LowerOf(c) ==
    CASE c = "A" -> "a" [] c = "B" -> "b" [] c = "C" -> "c" [] c = "D" -> "d"
      [] c = "E" -> "e" [] c = "F" -> "f" [] c = "G" -> "g" [] c = "H" -> "h"
      [] c = "I" -> "i" [] c = "J" -> "j" [] c = "K" -> "k" [] c = "L" -> "l"
      [] c = "M" -> "m" [] c = "N" -> "n" [] c = "O" -> "o" [] c = "P" -> "p"
      [] c = "Q" -> "q" [] c = "R" -> "r" [] c = "S" -> "s" [] c = "T" -> "t"
      [] c = "U" -> "u" [] c = "V" -> "v" [] c = "W" -> "w" [] c = "X" -> "x"
      [] c = "Y" -> "y" [] c = "Z" -> "z"
      [] OTHER -> c

ToLower(s) == [i \in 1..Len(s) |-> LowerOf(s[i])]

(***************************************************************************)
(* JSON values and JSON.parse                                              *)
(*                                                                         *)
(* A value is a record tagged by t: null, bool (b), num (lit: the text of  *)
(* the number), str (s: the decoded characters), arr (items: a sequence)   *)
(* and obj (m: a function from keys to values; a repeated key keeps its    *)
(* last value, as in JavaScript).                                          *)
(***************************************************************************)
JNull == [t |-> "null"]

JBool(b) == [t |-> "bool", b |-> b]

JNum(lit) == [t |-> "num", lit |-> lit]

JStr(s) == [t |-> "str", s |-> s]

JArr(items) == [t |-> "arr", items |-> items]

JObj(m) == [t |-> "obj", m |-> m]

\* The result of a failed parse: JSON.parse throws SyntaxError.
ParseFail == [ok |-> FALSE, v |-> JNull]

\* A token read: its value and the position after it; next = 0 for no token.
Token(v, next) == [ok |-> next > 0, v |-> v, next |-> next]

NoToken == Token(JNull, 0)

SkipWs(s, i) == SkipSet(s, i, JsonWs)

\* Whether position k of s holds a backslash that starts an escape: an even
\* number of backslashes stands right before it.
EscapeStart(s, k) ==
    k >= 1 /\ k <= Len(s) /\ s[k] = BSL /\ (k - 1 - SkipSetBack(s, k - 1, {BSL})) % 2 = 0

\* The position of the quote that closes the string opened at position i, 0
\* when the string is not closed: the first quote that no backslash escapes.
StringClose(s, i) ==
    LET ps == Positions(s, LAMBDA j : j > i /\ s[j] = QT /\ ~EscapeStart(s, j - 1)) IN
    IF ps = <<>> THEN 0 ELSE ps[1]

\* Whether position k belongs to the escape that starts before it: the
\* character after the backslash, or one of the four digits of \uXXXX.
InEscape(s, k) ==
    \/ EscapeStart(s, k - 1)
    \/ \E e \in (k - 5)..(k - 2) : EscapeStart(s, e) /\ s[e + 1] = "u"

\* The character an escape \c stands for.
Unescape(c) ==
    CASE c = "n" -> LF [] c = "r" -> CR [] c = "t" -> TAB [] c = "b" -> NUL
      [] c = "f" -> NUL [] c = "u" -> UCH [] OTHER -> c

\* Whether the characters between the quotes at i and close are those of a
\* JSON string: no raw control character, only the escapes of JSON.
StringBodyOk(s, i, close) ==
    \A k \in (i + 1)..(close - 1) :
        IF EscapeStart(s, k)
        THEN /\ s[k + 1] \in {QT, BSL, "/", "b", "f", "n", "r", "t", "u"}
             /\ s[k + 1] = "u" =>
                   k + 5 < close /\ \A h \in (k + 2)..(k + 5) : s[h] \in HexDigits
        ELSE InEscape(s, k) \/ s[k] \notin JsonStringForbidden

\* The decoded characters of the string between the quotes at i and close.
StringValue(s, i, close) ==
    ConcatAll([n \in 1..(close - i - 1) |->
                  IF EscapeStart(s, i + n) THEN <<Unescape(s[i + n + 1])>>
                  ELSE IF InEscape(s, i + n) THEN <<>>
                  ELSE <<s[i + n]>>])

\* The string token whose opening quote is at i and closing quote at close.
StringToken(s, i, close) ==
    IF close > 0 /\ StringBodyOk(s, i, close)
    THEN Token(JStr(StringValue(s, i, close)), close + 1)
    ELSE NoToken

\* The position after the digits that start at p, 0 when no digit is there.
DigitsEnd(s, p) == IF p <= Len(s) /\ s[p] \in Digits THEN SkipSet(s, p, Digits) ELSE 0

\* The integer part 0 | [1-9][0-9]* at position a.
NumIntEnd(s, a) == IF a <= Len(s) /\ s[a] = "0" THEN a + 1 ELSE DigitsEnd(s, a)

\* The optional fraction . [0-9]+ at position b.
NumFracEnd(s, b) ==
    IF b > 0 /\ b <= Len(s) /\ s[b] = "." THEN DigitsEnd(s, b + 1) ELSE b

\* The optional exponent [eE] [+-]? [0-9]+ at position c.
NumExpEnd(s, c) ==
    IF c > 0 /\ c <= Len(s) /\ s[c] \in {"e", "E"}
    THEN DigitsEnd(s, IF c + 1 <= Len(s) /\ s[c + 1] \in {"+", "-"} THEN c + 2 ELSE c + 1)
    ELSE c

\* The position after the JSON number at position i, 0 when there is none.
NumberEnd(s, i) == NumExpEnd(s, NumFracEnd(s, NumIntEnd(s, IF s[i] = "-" THEN i + 1 ELSE i)))

NumberToken(s, i, end) == IF end > 0 THEN Token(JNum(SubSeq(s, i, end - 1)), end) ELSE NoToken

\* The string, number or literal at position j.
Scalar(s, j) ==
    CASE s[j] = QT -> StringToken(s, j, StringClose(s, j))
      [] s[j] = "-" \/ s[j] \in Digits -> NumberToken(s, j, NumberEnd(s, j))
      [] At(s, j, <<"t", "r", "u", "e">>) -> Token(JBool(TRUE), j + 4)
      [] At(s, j, <<"f", "a", "l", "s", "e">>) -> Token(JBool(FALSE), j + 5)
      [] At(s, j, <<"n", "u", "l", "l">>) -> Token(JNull, j + 4)
      [] OTHER -> NoToken

\* The parser keeps a stack of the values it is inside of: k is "top", "arr"
\* or "obj", st says what may come next ("first", "key", "value", "after"),
\* acc holds what was read so far and key the key whose value is awaited.
Frame(k, st, acc) == [k |-> k, st |-> st, acc |-> acc, key |-> <<>>]

Top(stack) == stack[Len(stack)]

Pop(stack) == SubSeq(stack, 1, Len(stack) - 1)

SetTop(stack, f) == [stack EXCEPT ![Len(stack)] = f]

\* The value v is complete: it goes into the value that encloses it.
Deliver(stack, v) ==
    SetTop(stack, [Top(stack) EXCEPT
        !.st = "after",
        !.acc = IF Top(stack).k = "arr" THEN Append(Top(stack).acc, v)
                ELSE IF Top(stack).k = "obj" THEN (Top(stack).key :> v) @@ Top(stack).acc
                ELSE v])

\* The key read as token t becomes the awaited key if a colon follows it.
WithKey(stack, t) == SetTop(stack, [Top(stack) EXCEPT !.st = "value", !.key = t.v.s])

\* The JSON grammar from position j of s (not whitespace) on.
RECURSIVE ParseFrom(_, _, _)
ParseFrom(s, j, stack) ==
    IF Top(stack).k = "top" /\ Top(stack).st = "after"
    THEN (IF j > Len(s) THEN [ok |-> TRUE, v |-> Top(stack).acc] ELSE ParseFail)
    ELSE IF j > Len(s) THEN ParseFail
    ELSE IF Top(stack).st = "after" THEN
        IF s[j] = "," THEN
            ParseFrom(s, SkipWs(s, j + 1),
                      SetTop(stack, [Top(stack) EXCEPT
                                        !.st = IF Top(stack).k = "obj" THEN "key" ELSE "value"]))
        ELSE IF s[j] = "]" /\ Top(stack).k = "arr" THEN
            ParseFrom(s, SkipWs(s, j + 1), Deliver(Pop(stack), JArr(Top(stack).acc)))
        ELSE IF s[j] = "}" /\ Top(stack).k = "obj" THEN
            ParseFrom(s, SkipWs(s, j + 1), Deliver(Pop(stack), JObj(Top(stack).acc)))
        ELSE ParseFail
    ELSE IF Top(stack).k = "obj" /\ Top(stack).st \in {"first", "key"} THEN
        IF s[j] = "}" /\ Top(stack).st = "first" THEN
            ParseFrom(s, SkipWs(s, j + 1), Deliver(Pop(stack), JObj(<<>>)))
        ELSE IF s[j] = QT /\ Scalar(s, j).ok
                /\ SkipWs(s, Scalar(s, j).next) <= Len(s)
                /\ s[SkipWs(s, Scalar(s, j).next)] = ":" THEN
            ParseFrom(s, SkipWs(s, SkipWs(s, Scalar(s, j).next) + 1),
                      WithKey(stack, Scalar(s, j)))
        ELSE ParseFail
    ELSE IF s[j] = "{" THEN
        ParseFrom(s, SkipWs(s, j + 1), Append(stack, Frame("obj", "first", <<>>)))
    ELSE IF s[j] = "[" THEN
        ParseFrom(s, SkipWs(s, j + 1), Append(stack, Frame("arr", "first", <<>>)))
    ELSE IF s[j] = "]" /\ Top(stack).k = "arr" /\ Top(stack).st = "first" THEN
        ParseFrom(s, SkipWs(s, j + 1), Deliver(Pop(stack), JArr(<<>>)))
    ELSE IF Scalar(s, j).ok THEN
        ParseFrom(s, SkipWs(s, Scalar(s, j).next), Deliver(stack, Scalar(s, j).v))
    ELSE ParseFail

\* JSON.parse(s): ok is FALSE where JSON.parse throws.
JsonParse(s) == ParseFrom(s, SkipWs(s, 1), <<Frame("top", "value", JNull)>>)

(***************************************************************************)
(* The repair chain: fixCommonJsonIssues                                   *)
(***************************************************************************)
Fence == <<BT, BT, BT>>

JsonTag == <<"j", "s", "o", "n">>

\* replace(/^\uFEFF/, '').trim()
StripBomAndTrim(s) ==
    Trim(IF s # <<>> /\ Head(s) = BOM THEN Tail(s) ELSE s)

\* replace(/^```json\s*/i, '')
StripFenceJsonPrefix(s) ==
    IF At(s, 1, Fence) /\ Len(s) >= 7 /\ ToLower(SubSeq(s, 4, 7)) = JsonTag
    THEN From(s, SkipSet(s, 8, ReWs))
    ELSE s

\* replace(/^```\s*/i, '')
StripFencePrefix(s) ==
    IF At(s, 1, Fence) THEN From(s, SkipSet(s, 4, ReWs)) ELSE s

\* replace(/\s*```$/i, '')
StripFenceSuffix(s) ==
    IF Len(s) >= 3 /\ At(s, Len(s) - 2, Fence)
    THEN SubSeq(s, 1, SkipSetBack(s, Len(s) - 3, ReWs))
    ELSE s

StripFenceMarkers(s) == StripFenceSuffix(StripFencePrefix(StripFenceJsonPrefix(s)))

\* Lines 60-73: drop the text before the first { or [.
StartIndex(firstBrace, firstBracket) ==
    IF firstBrace > 0 /\ firstBracket > 0 THEN Min(firstBrace, firstBracket)
    ELSE IF firstBrace > 0 THEN firstBrace
    ELSE firstBracket

SubstringFrom(s, startIndex) == IF startIndex > 1 THEN From(s, startIndex) ELSE s

TrimBeforeFirstOpen(s) == SubstringFrom(s, StartIndex(IndexOf(s, "{"), IndexOf(s, "[")))

\* One pass of replace(/,(\s*[}\]])/g, '$1'): a comma goes when only
\* whitespace separates it from the next } or ].
TrailingCommaPass(s) ==
    CharsAt(s, Positions(s, LAMBDA i :
                  ~(s[i] = "," /\ IsOneOf(s, SkipSet(s, i + 1, ReWs), {"}", "]"}))))

\* The loop of lines 76-80 left after its first pass.
RemoveTrailingCommasOnce(s) == TrailingCommaPass(s)

\* Lines 76-80: the pass is repeated until the length no longer changes.
RECURSIVE RemoveTrailingCommas(_)
RECURSIVE RepeatPass(_, _)
RepeatPass(s, t) == IF Len(t) = Len(s) THEN t ELSE RemoveTrailingCommas(t)

RemoveTrailingCommas(s) == RepeatPass(s, TrailingCommaPass(s))

\* replace(/a(\s*)b/g, 'a,\nb') for two different characters a and b, neither
\* of them whitespace: where only whitespace separates an a from a following
\* b, the whitespace is replaced by a comma and a line feed.
CommaMatch(s, a, b, i) ==
    IsOneOf(s, i, {a}) /\ IsOneOf(s, SkipSet(s, i + 1, ReWs), {b})

InsertComma(s, a, b) ==
    ConcatAll([i \in 1..Len(s) |->
                  IF CommaMatch(s, a, b, IF s[i] \in ReWs THEN SkipSetBack(s, i - 1, ReWs) ELSE i)
                  THEN (IF s[i] = a THEN <<a, ",", LF>> ELSE <<>>)
                  ELSE <<s[i]>>])

\* Lines 83-88: the six patterns, in the order of the code.
CommaPatterns == <<<<"}", "{">>, <<"}", QT>>, <<"]", "{">>, <<"]", QT>>, <<QT, "{">>, <<QT, "[">>>>

\* The first k replacements of lines 83-88 applied to s.
RECURSIVE InsertCommas(_, _)
InsertCommas(s, k) ==
    IF k = 0 THEN s
    ELSE InsertComma(InsertCommas(s, k - 1), CommaPatterns[k][1], CommaPatterns[k][2])

\* Lines 82-88.
InsertMissingCommas(s) == InsertCommas(s, Len(CommaPatterns))

\* Line 92: replace(/([^\\])"([^":,{}\[\]\s][^"]*[^\\])"/g, '$1"$2"'). The
\* replacement text $1"$2" is the matched text itself, so the text is unchanged.
FixUnescapedQuotes(s) == s

\* Lines 95-98: control characters other than \n, \r, \t are removed.
RemoveControlChars(s) == SelectSeq(s, LAMBDA c : c \notin ControlChars \ {LF, CR, TAB})

\* Line 102: the matches of /(?<!\\)"/g.
UnescapedQuotes(s) ==
    Len(Positions(s, LAMBDA i : s[i] = QT /\ (i = 1 \/ s[i - 1] # BSL)))

\* Lines 103-106: replace(/("[^"]*?)$/, '$1"') matches from the last quote to
\* the end of the text and appends a quote.
CloseLastString(s) ==
    IF UnescapedQuotes(s) % 2 # 0 /\ QT \in Range(s) THEN Append(s, QT) ELSE s

\* Line 115: replace(/,\s*$/, '')
DropTrailingComma(s) ==
    IF IsOneOf(s, SkipSetBack(s, Len(s), ReWs), {","})
    THEN SubSeq(s, 1, SkipSetBack(s, Len(s), ReWs) - 1)
    ELSE s

\* Line 116: replace(/"[^"]*$/, '"') keeps the text up to its last quote.
DropAfterLastQuote(s) == IF QT \in Range(s) THEN SubSeq(s, 1, LastIndexOf(s, QT)) ELSE s

\* Lines 109-112: the bracket counts, taken before lines 115-116 run.
OpenBraces(s) == CountIn(s, {"{"})

CloseBraces(s) == CountIn(s, {"}"})

OpenBrackets(s) == CountIn(s, {"["})

CloseBrackets(s) == CountIn(s, {"]"})

\* Lines 55-73: the text fixCommonJsonIssues holds when it enters the loop of
\* lines 76-80.
BeforeCommaLoop(jsonString) ==
    TrimBeforeFirstOpen(StripFenceMarkers(StripBomAndTrim(jsonString)))

\* The text fixCommonJsonIssues holds when it takes the bracket counts (line 108).
BeforeBalance(jsonString) ==
    CloseLastString(RemoveControlChars(FixUnescapedQuotes(InsertMissingCommas(
        RemoveTrailingCommas(TrimBeforeFirstOpen(StripFenceMarkers(
            StripBomAndTrim(jsonString))))))))

\* The text the closers are appended to (after lines 115-116).
BeforeClosers(counted) == DropAfterLastQuote(DropTrailingComma(counted))

\* Lines 119-124: the closers appended, brackets first, then braces.
Closers(counted) ==
    Repeat("]", OpenBrackets(counted) - CloseBrackets(counted))
        \o Repeat("}", OpenBraces(counted) - CloseBraces(counted))

\* Lines 108-126.
BalanceBrackets(counted) == BeforeClosers(counted) \o Closers(counted)

fixCommonJsonIssues(jsonString) == BalanceBrackets(BeforeBalance(jsonString))

(***************************************************************************)
(* extractJson                                                             *)
(***************************************************************************)
\* First position >= i where the fence ``` starts, 0 when there is none.
FenceFrom(s, i) == FirstOr(Positions(s, LAMBDA j : j >= i /\ At(s, j, Fence)), 0)

\* content.match(/```(?:json)?\s*([\s\S]*?)```/) tried from position i: the
\* interior of the first fenced block, [found |-> FALSE] when none matches.
NoMatch == [found |-> FALSE, text |-> <<>>]

Match(text) == [found |-> TRUE, text |-> text]

RECURSIVE CodeBlockFrom(_, _)
RECURSIVE CodeBlockOpen(_, _)
RECURSIVE CodeBlockBody(_, _, _)
RECURSIVE CodeBlockClose(_, _, _, _)
\* The block opened at open, whose interior starts at p, closed at close.
CodeBlockClose(s, open, p, close) ==
    IF close > 0 THEN Match(SubSeq(s, p, close - 1)) ELSE CodeBlockFrom(s, open + 1)

CodeBlockBody(s, open, p) == CodeBlockClose(s, open, p, FenceFrom(s, p))

\* The opening fence at open, the optional tag json and \s* after it.
CodeBlockOpen(s, open) ==
    IF open = 0 THEN NoMatch
    ELSE CodeBlockBody(s, open,
                       SkipSet(s, IF At(s, open + 3, JsonTag) THEN open + 7 ELSE open + 3, ReWs))

CodeBlockFrom(s, i) == CodeBlockOpen(s, FenceFrom(s, i))

CodeBlockMatch(s) == CodeBlockFrom(s, 1)

FirstToLast(s, a, b) == IF a > 0 /\ b > a THEN Match(SubSeq(s, a, b)) ELSE NoMatch

\* content.match(/\{[\s\S]*\}/): from the first { to the last }.
JsonObjectMatch(s) == FirstToLast(s, IndexOf(s, "{"), LastIndexOf(s, "}"))

\* Lines 39-47: the object match repaired, null when there is none.
FromJsonMatch(jsonMatch) ==
    IF jsonMatch.found THEN Match(fixCommonJsonIssues(jsonMatch.text)) ELSE NoMatch

\* Lines 30-47: the fenced block trimmed and repaired, else the object match.
FromCodeBlockMatch(c, codeBlockMatch) ==
    IF codeBlockMatch.found THEN Match(fixCommonJsonIssues(Trim(codeBlockMatch.text)))
    ELSE FromJsonMatch(JsonObjectMatch(c))

\* extractJson without the direct parse of lines 22-27.
extractJsonAlwaysRepairs(c) == FromCodeBlockMatch(c, CodeBlockMatch(c))

\* extractJson(content): found is FALSE where the code returns null.
extractJson(c) ==
    IF JsonParse(c).ok THEN Match(c) ELSE FromCodeBlockMatch(c, CodeBlockMatch(c))

(***************************************************************************)
(* Numbers: a num value keeps the text of its literal                      *)
(***************************************************************************)
DigitVal(c) ==
    CASE c = "0" -> 0 [] c = "1" -> 1 [] c = "2" -> 2 [] c = "3" -> 3 [] c = "4" -> 4
      [] c = "5" -> 5 [] c = "6" -> 6 [] c = "7" -> 7 [] c = "8" -> 8 [] c = "9" -> 9

RECURSIVE DigitsVal(_, _)
DigitsVal(ds, acc) ==
    IF ds = <<>> THEN acc ELSE DigitsVal(Tail(ds), 10 * acc + DigitVal(Head(ds)))

RECURSIVE Pow10(_)
Pow10(n) == IF n <= 0 THEN 1 ELSE 10 * Pow10(n - 1)

NumNegative(lit) == Head(lit) = "-"

\* The literal without its sign and without its exponent part.
NumMantissa(lit) ==
    LET body == IF NumNegative(lit) THEN Tail(lit) ELSE lit
        e == Max(IndexOf(body, "e"), IndexOf(body, "E"))
    IN  IF e > 0 THEN SubSeq(body, 1, e - 1) ELSE body

\* The value of the exponent part, 0 when there is none.
NumExponent(lit) ==
    LET e == Max(IndexOf(lit, "e"), IndexOf(lit, "E"))
        x == From(lit, e + 1)
    IN  IF e = 0 THEN 0
        ELSE IF Head(x) = "-" THEN 0 - DigitsVal(Tail(x), 0)
        ELSE IF Head(x) = "+" THEN DigitsVal(Tail(x), 0)
        ELSE DigitsVal(x, 0)

NumIsZero(lit) == \A i \in 1..Len(NumMantissa(lit)) : NumMantissa(lit)[i] \in {"0", "."}

\* value >= 0 (zod nonnegative(), min(0)); -0 is not below 0.
NumNonNegative(lit) == ~NumNegative(lit) \/ NumIsZero(lit)

\* value <= n for a natural number n (zod max(n)).
NumAtMost(lit, n) ==
    LET mant == NumMantissa(lit)
        dot == IndexOf(mant, ".")
        int == IF dot > 0 THEN SubSeq(mant, 1, dot - 1) ELSE mant
        frac == IF dot > 0 THEN From(mant, dot + 1) ELSE <<>>
        m == DigitsVal(int \o frac, 0)
        sh == NumExponent(lit) - Len(frac)
    IN  \/ NumNegative(lit)
        \/ m = 0
        \/ IF sh >= 0 THEN m * Pow10(sh) <= n ELSE m <= n * Pow10(0 - sh)

(***************************************************************************)
(* The zod schemas: rawResponseSchema and productSchema                    *)
(***************************************************************************)
kProducts == <<"p", "r", "o", "d", "u", "c", "t", "s">>

kSearchSummary == <<"s", "e", "a", "r", "c", "h", "_", "s", "u", "m", "m", "a", "r", "y">>

kName == <<"n", "a", "m", "e">>

kDescription == <<"d", "e", "s", "c", "r", "i", "p", "t", "i", "o", "n">>

kPrice == <<"p", "r", "i", "c", "e">>

kSource == <<"s", "o", "u", "r", "c", "e">>

kSpecs == <<"s", "p", "e", "c", "s">>

kRelevanceScore == <<"r", "e", "l", "e", "v", "a", "n", "c", "e", "_", "s", "c", "o", "r", "e">>

kImageUrl == <<"i", "m", "a", "g", "e", "_", "u", "r", "l">>

kBrand == <<"b", "r", "a", "n", "d">>

kCategory == <<"c", "a", "t", "e", "g", "o", "r", "y">>

kRating == <<"r", "a", "t", "i", "n", "g">>

kAvailability == <<"a", "v", "a", "i", "l", "a", "b", "i", "l", "i", "t", "y">>

kValue == <<"v", "a", "l", "u", "e">>

kMin == <<"m", "i", "n">>

kMax == <<"m", "a", "x">>

kCurrency == <<"c", "u", "r", "r", "e", "n", "c", "y">>

kFormatted == <<"f", "o", "r", "m", "a", "t", "t", "e", "d">>

kUrl == <<"u", "r", "l">>

BRL == <<"B", "R", "L">>

USD == <<"U", "S", "D">>

NameMinLen == 3

NameMaxLen == 200

DescriptionMaxLen == 500

RatingMax == 5

RelevanceMax == 1

IsStr(v) == v.t = "str"

IsNum(v) == v.t = "num"

\* An optional field: absent, or satisfying P.
Optional(v, k, P(_)) == k \notin DOMAIN v.m \/ P(v.m[k])

LowerLetters == {"a", "b", "c", "d", "e", "f", "g", "h", "i", "j", "k", "l", "m", "n",
                 "o", "p", "q", "r", "s", "t", "u", "v", "w", "x", "y", "z"}

UpperLetters == {"A", "B", "C", "D", "E", "F", "G", "H", "I", "J", "K", "L", "M", "N",
                 "O", "P", "Q", "R", "S", "T", "U", "V", "W", "X", "Y", "Z"}

SchemeChars == LowerLetters \cup UpperLetters \cup Digits \cup {"+", "-", "."}

\* z.string().url(): new URL(s) does not throw. The text needs a scheme
\* (a letter, then letters, digits, +, -, .) followed by ":", and an http or
\* https URL needs a host after the optional slashes, with no space in it.
IsUrl(s) ==
    LET c == IndexOf(s, ":")
        scheme == ToLower(SubSeq(s, 1, c - 1))
        rest == From(s, SkipSet(s, c + 1, {"/", BSL}))
        hostEnd == Min(Min(IF IndexOf(rest, "/") = 0 THEN Len(rest) + 1 ELSE IndexOf(rest, "/"),
                           IF IndexOf(rest, "?") = 0 THEN Len(rest) + 1 ELSE IndexOf(rest, "?")),
                       IF IndexOf(rest, "#") = 0 THEN Len(rest) + 1 ELSE IndexOf(rest, "#"))
        host == SubSeq(rest, 1, hostEnd - 1)
    IN  /\ c > 1
        /\ s[1] \notin Digits \cup {"+", "-", "."}
        /\ \A i \in 1..(c - 1) : s[i] \in SchemeChars
        /\ scheme \in {<<"h", "t", "t", "p">>, <<"h", "t", "t", "p", "s">>}
              => host # <<>> /\ \A i \in 1..Len(host) : host[i] \notin {SP, QT, "{", "}", "[", "]"}

IsUrlStr(v) == IsStr(v) /\ IsUrl(v.s)

IsNonNegativeNum(v) == IsNum(v) /\ NumNonNegative(v.lit)

\* priceSchema
ValidPrice(v) ==
    /\ v.t = "obj"
    /\ Optional(v, kValue, IsNonNegativeNum)
    /\ Optional(v, kMin, IsNonNegativeNum)
    /\ Optional(v, kMax, IsNonNegativeNum)
    /\ kCurrency \in DOMAIN v.m => IsStr(v.m[kCurrency]) /\ v.m[kCurrency].s \in {BRL, USD}
    /\ Optional(v, kFormatted, IsStr)

\* sourceSchema
ValidSource(v) ==
    /\ v.t = "obj"
    /\ kName \in DOMAIN v.m
    /\ IsStr(v.m[kName])
    /\ Len(v.m[kName].s) >= 1
    /\ Optional(v, kUrl, IsUrlStr)

ValidName(v) == IsStr(v) /\ Len(v.s) >= NameMinLen /\ Len(v.s) <= NameMaxLen

ValidDescription(v) == IsStr(v) /\ Len(v.s) <= DescriptionMaxLen

ValidSpecs(v) == v.t = "arr" /\ \A i \in 1..Len(v.items) : IsStr(v.items[i])

ValidRelevance(v) == IsNonNegativeNum(v) /\ NumAtMost(v.lit, RelevanceMax)

ValidRating(v) == IsNonNegativeNum(v) /\ NumAtMost(v.lit, RatingMax)

\* productSchema.safeParse(v).success
ValidProduct(v) ==
    /\ v.t = "obj"
    /\ kName \in DOMAIN v.m
    /\ ValidName(v.m[kName])
    /\ Optional(v, kDescription, ValidDescription)
    /\ Optional(v, kPrice, ValidPrice)
    /\ Optional(v, kSource, ValidSource)
    /\ Optional(v, kSpecs, ValidSpecs)
    /\ Optional(v, kRelevanceScore, ValidRelevance)
    /\ Optional(v, kImageUrl, IsUrlStr)
    /\ Optional(v, kBrand, IsStr)
    /\ Optional(v, kCategory, IsStr)
    /\ Optional(v, kRating, ValidRating)
    /\ Optional(v, kAvailability, IsStr)

PriceKeys == {kValue, kMin, kMax, kCurrency, kFormatted}

SourceKeys == {kName, kUrl}

ProductKeys == {kName, kDescription, kPrice, kSource, kSpecs, kRelevanceScore, kImageUrl,
                kBrand, kCategory, kRating, kAvailability}

\* The keys of object v among those of set K: zod strips unknown keys.
Strip(v, K) == JObj([k \in (DOMAIN v.m) \cap K |-> v.m[k]])

\* The data zod returns for a valid price: currency defaults to BRL.
PriceData(v) ==
    LET p == Strip(v, PriceKeys) IN
    IF kCurrency \in DOMAIN p.m THEN p ELSE JObj((kCurrency :> JStr(BRL)) @@ p.m)

\* productSchema.safeParse(v).data for a valid product v.
ProductData(v) ==
    JObj([k \in (DOMAIN v.m) \cap ProductKeys |->
            IF k = kPrice THEN PriceData(v.m[k])
            ELSE IF k = kSource THEN Strip(v.m[k], SourceKeys)
            ELSE v.m[k]])

\* rawResponseSchema.safeParse(v).success
ValidRawResponse(v) ==
    /\ v.t = "obj"
    /\ kProducts \in DOMAIN v.m
    /\ v.m[kProducts].t = "arr"
    /\ Optional(v, kSearchSummary, IsStr)

(***************************************************************************)
(* parseProducts                                                           *)
(***************************************************************************)
\* One entry of parseErrors: kind is "extract" ('Could not extract JSON from
\* response'), "json" ('Invalid JSON: ...'), "structure" ('Response does not
\* match expected structure') or "product" ('Product <index> invalid: ...').
Diag(kind, index) == [kind |-> kind, index |-> index]

NoSummary == [present |-> FALSE, s |-> <<>>]

\* A ParseResult; threw says that an exception left parseProducts instead.
ParseResult(products, summary, errors) ==
    [threw |-> FALSE, products |-> products, searchSummary |-> summary, parseErrors |-> errors]

\* An exception leaving parseProducts: no result is returned.
Thrown == [threw |-> TRUE, products |-> <<>>, searchSummary |-> NoSummary, parseErrors |-> <<>>]

\* jsonString.match(/"products"\s*:\s*(\[[\s\S]*)/i): the text from the [
\* that follows the first "products" key, whatever its case, to the end.
ProductsMatch(s) ==
    LET key == <<QT>> \o kProducts \o <<QT>>
        colon(i) == SkipSet(s, i + Len(key), ReWs)
        open(i) == SkipSet(s, colon(i) + 1, ReWs)
        ps == Positions(s, LAMBDA i : /\ i + Len(key) - 1 <= Len(s)
                                      /\ ToLower(SubSeq(s, i, i + Len(key) - 1)) = key
                                      /\ colon(i) <= Len(s) /\ s[colon(i)] = ":"
                                      /\ open(i) <= Len(s) /\ s[open(i)] = "[")
    IN  IF ps = <<>> THEN NoMatch ELSE Match(From(s, open(ps[1])))

\* Lines 158-167: endIndex, the length of the shortest prefix of s that
\* holds as many ] as [ (the depth is back at 0); 0 when there is none.
EndIndex(s) ==
    FirstOr(Positions(s, LAMBDA i : CountIn(SubSeq(s, 1, i), {"["})
                                      = CountIn(SubSeq(s, 1, i), {"]"})), 0)

\* Lines 168-170: productsJson up to endIndex, whole when endIndex is 0.
CutAt(productsJson, endIndex) ==
    IF endIndex > 0 THEN SubSeq(productsJson, 1, endIndex) ELSE productsJson

\* Lines 156-171: the array value of the "products" key, cut and repaired.
ProductsArrayText(productsJson) ==
    fixCommonJsonIssues(CutAt(productsJson, EndIndex(productsJson)))

NoRawData == [ok |-> FALSE, v |-> JNull]

\* Lines 172-173: the document built around a products array that parsed.
WrapProducts(products) ==
    IF products.ok
    THEN [ok |-> TRUE, v |-> JObj((kProducts :> products.v) @@ (kSearchSummary :> JStr(<<>>)))]
    ELSE NoRawData

\* Lines 153-185: the third attempt, on the match of the "products" key.
RawDataFromMatch(productsMatch) ==
    IF productsMatch.found
    THEN WrapProducts(JsonParse(ProductsArrayText(productsMatch.text)))
    ELSE NoRawData

\* Lines 148-151: the second attempt, on the repaired text.
RawDataSecondTry(jsonString, secondTry) ==
    IF secondTry.ok THEN secondTry ELSE RawDataFromMatch(ProductsMatch(jsonString))

\* Lines 143-147: the first attempt, on the extracted text as it is.
RawDataFirst(jsonString, first) ==
    IF first.ok THEN first
    ELSE RawDataSecondTry(jsonString, JsonParse(fixCommonJsonIssues(jsonString)))

\* Lines 143-187: rawData, [ok |-> FALSE] where parseProducts returns the
\* 'Invalid JSON' result instead.
RawData(jsonString) == RawDataFirst(jsonString, JsonParse(jsonString))

\* Lines 201-204: productSchema.safeParse on every record.
ProductResults(items) == [i \in 1..Len(items) |-> ValidProduct(items[i])]

\* The records at the positions ps, as zod returns them.
DataAt(items, ps) == [k \in 1..Len(ps) |-> ProductData(items[ps[k]])]

\* The loop of lines 201-210 left at the first invalid record.
validProductsUntilInvalid(items, results) ==
    DataAt(items, Positions(results, LAMBDA i : \A j \in 1..i : results[j]))

\* Lines 205-206: the valid records, in the order of the loop.
validProducts(items, results) ==
    DataAt(items, Positions(results, LAMBDA i : results[i]))

ErrorsAt(ps) == [k \in 1..Len(ps) |-> Diag("product", ps[k])]

\* Lines 207-209: one diagnostic per invalid record, with its 1-based position.
ProductErrors(results) == ErrorsAt(Positions(results, LAMBDA i : ~results[i]))

\* Line 214: searchSummary is the search_summary of the document, if any.
SummaryOf(data) ==
    IF kSearchSummary \in DOMAIN data.m
    THEN [present |-> TRUE, s |-> data.m[kSearchSummary].s]
    ELSE NoSummary

\* Lines 198-216: the per-record validation and the result.
ValidatedResult(data, results) ==
    ParseResult(validProducts(data.m[kProducts].items, results), SummaryOf(data),
                ProductErrors(results))

\* Lines 189-216: the structure check and the per-record validation.
ValidateDocument(rawData) ==
    IF ~ValidRawResponse(rawData)
    THEN ParseResult(<<>>, NoSummary, <<Diag("structure", 0)>>)
    ELSE ValidatedResult(rawData, ProductResults(rawData.m[kProducts].items))

\* The catch handlers of lines 174-185 letting the exception through.
InvalidJsonRethrown == Thrown

\* Lines 174-185: the two catch handlers return the 'Invalid JSON' result.
InvalidJsonResult == ParseResult(<<>>, NoSummary, <<Diag("json", 0)>>)

\* Lines 143-216: from rawData on.
FromRawData(rawData) ==
    IF rawData.ok THEN ValidateDocument(rawData.v) ELSE InvalidJsonResult

\* Lines 136-216: from the result of extractJson on. The empty text is falsy.
FromExtracted(jsonString) ==
    IF ~jsonString.found \/ jsonString.text = <<>>
    THEN ParseResult(<<>>, NoSummary, <<Diag("extract", 0)>>)
    ELSE FromRawData(RawData(jsonString.text))

parseProducts(c) == FromExtracted(extractJson(c))

(***************************************************************************)
(* Input texts of the parser                                               *)
(***************************************************************************)
\* Largest number of records in the products array of a generated document.
MaxRecords == 2

Q(w) == <<QT>> \o w \o <<QT>>

KV(k, v) == Q(k) \o <<":">> \o v

RECURSIVE Join(_, _)
Join(texts, sep) ==
    IF texts = <<>> THEN <<>>
    ELSE IF Len(texts) = 1 THEN texts[1]
    ELSE texts[1] \o sep \o Join(Tail(texts), sep)

Obj(members) == <<"{">> \o Join(members, <<",">>) \o <<"}">>

Arr(items) == <<"[">> \o Join(items, <<",">>) \o <<"]">>

\* Records of a products array: RecAbc, RecPriced and RecExtra satisfy the
\* Product contract, the others do not.
RecAbc == Obj(<<KV(kName, Q(<<"a", "b", "c">>))>>)

RecPriced == Obj(<<KV(kName, Q(<<"a", "b", "c", "d">>)), KV(kPrice, Obj(<<KV(kValue, <<"1">>)>>))>>)

RecExtra == Obj(<<KV(kName, Q(<<"A", "b", "c">>)), KV(<<"x">>, <<"1">>)>>)

RecShortName == Obj(<<KV(kName, Q(<<"a", "b">>))>>)

RecNotObject == <<"7">>

RecBadRating == Obj(<<KV(kName, Q(<<"a", "b", "c">>)), KV(kRating, <<"6">>)>>)

RecordTexts == {RecAbc, RecPriced, RecShortName, RecNotObject}

RecordLists == UNION {[1..n -> RecordTexts] : n \in 0..MaxRecords}

SummaryOk == KV(kSearchSummary, Q(<<"o", "k">>))

SummaryNull == KV(kSearchSummary, <<"n", "u", "l", "l">>)

SummaryNumber == KV(kSearchSummary, <<"1">>)

\* Documents with a products array of up to MaxRecords records.
RecordDocs ==
    {Obj(<<KV(kProducts, Arr(rs))>>) : rs \in RecordLists}
        \cup {Obj(<<KV(kProducts, Arr(rs)), SummaryOk>>) : rs \in RecordLists}
        \cup {Obj(<<KV(kProducts, Arr(<<RecExtra, RecBadRating, RecAbc>>))>>)}

\* Documents that differ in their top-level shape.
ShapeDocs ==
    {Arr(<<>>), Obj(<<>>), <<"n", "u", "l", "l">>, <<"1">>, Q(<<"x">>),
     Obj(<<KV(kProducts, <<"1">>)>>),
     Obj(<<KV(kProducts, <<"n", "u", "l", "l">>)>>),
     Obj(<<SummaryOk>>),
     Obj(<<KV(kProducts, Arr(<<>>)), SummaryNull>>),
     Obj(<<KV(kProducts, Arr(<<RecAbc>>)), SummaryNull>>),
     Obj(<<KV(kProducts, Arr(<<RecAbc, RecShortName>>)), SummaryNumber>>),
     Obj(<<KV(kProducts, Arr(<<RecAbc>>)), KV(<<"x">>, <<"n", "u", "l", "l">>)>>)}

\* Small well-formed documents the repair chain is tried on.
BaseDocs ==
    {Obj(<<>>),
     Obj(<<KV(<<"a">>, <<"1">>)>>),
     Obj(<<KV(<<"a">>, Q(<<"b">>))>>),
     Arr(<<Obj(<<KV(<<"a">>, <<"1">>)>>), Obj(<<KV(<<"b">>, <<"2">>)>>)>>),
     Arr(<<Obj(<<>>), Obj(<<>>)>>),
     Arr(<<<<"1">>, Arr(<<<<"2">>, Obj(<<>>)>>)>>),
     Obj(<<KV(<<"a">>, Arr(<<<<"1">>, Obj(<<KV(<<"b">>, <<"2">>)>>)>>))>>),
     Obj(<<KV(<<"a">>, Obj(<<KV(<<"b">>, Q(<<"c">>))>>)), KV(<<"d">>, Q(<<"e">>))>>),
     Obj(<<KV(kProducts, Arr(<<RecAbc, RecPriced>>)), SummaryOk>>)}

\* Text t with its character at position i removed.
RemoveAt(t, i) == SubSeq(t, 1, i - 1) \o SubSeq(t, i + 1, Len(t))

\* Text t with text x inserted before position i.
InsertAt(t, i, x) == SubSeq(t, 1, i - 1) \o x \o SubSeq(t, i, Len(t))

\* t with a trailing comma before one closing brace that ends a non-empty object.
TrailingCommaTexts(t) ==
    {InsertAt(t, i, <<",">>) : i \in {j \in 2..Len(t) : t[j] = "}" /\ t[j - 1] # "{"}}

\* t in a fenced block, tagged or not, inside or not inside a sentence.
FencedTexts(t) ==
    {Fence \o <<LF>> \o t \o <<LF>> \o Fence,
     Fence \o JsonTag \o <<LF>> \o t \o <<LF>> \o Fence,
     <<"H", "i", ":", LF>> \o Fence \o JsonTag \o <<LF>> \o t \o <<LF>> \o Fence \o <<LF, "o", "k">>}

\* t without one comma that separates two adjacent objects.
MissingCommaTexts(t) ==
    LET at == {i \in 2..(Len(t) - 1) : t[i - 1] = "}" /\ t[i] = "," /\ t[i + 1] = "{"}
    IN  {RemoveAt(t, i) : i \in at} \cup {InsertAt(RemoveAt(t, i), i, <<SP>>) : i \in at}

\* The proper non-empty prefixes of t.
TruncatedTexts(t) == {SubSeq(t, 1, n) : n \in 1..(Len(t) - 1)}

\* A fenced block that holds a note, not a document.
FencedNote == Fence \o <<"h", "i">> \o Fence

OtherTexts ==
    {<<>>, <<"h", "i">>, Fence, Fence \o Fence, <<BOM>> \o Obj(<<KV(<<"a">>, <<"1">>)>>),
     <<"{", QT, "a", NUL, QT, ":", "1", ",", "}">>,
     <<"{", QT, "a", QT, SP, QT>> \o kProducts \o <<QT, ":", "[", QT, "x", QT, "]", "}">>,
     <<"x", SP>> \o Obj(<<KV(kProducts, Arr(<<RecAbc>>))>>) \o <<SP, "y">>,
     <<"x", SP>> \o Arr(<<Obj(<<>>), Obj(<<>>)>>) \o <<SP, "y">>,
     FencedNote \o <<SP>> \o Obj(<<>>),
     FencedNote \o <<SP>> \o Obj(<<KV(kProducts, Arr(<<>>))>>),
     <<"[", "1", ",", SP, ",", LF, "]">>,
     <<"{", QT, "a", QT, ":", "[", "1", ",", ",", "]", ",", TAB, ",", "}">>,
     KV(kProducts, Arr(<<>>)),
     KV(kProducts, Arr(<<RecNotObject>>)),
     <<"x", SP>> \o KV(kProducts, Arr(<<RecAbc>>))}

Input(kind, base, text) == [kind |-> kind, base |-> base, text |-> text]

Inputs ==
    {Input("wellFormed", t, t) : t \in BaseDocs \cup ShapeDocs \cup RecordDocs}
        \cup UNION {{Input("fencedTrailingComma", t, f) :
                        f \in UNION {FencedTexts(c) : c \in TrailingCommaTexts(t)}} : t \in BaseDocs}
        \cup UNION {{Input("fenced", t, f) : f \in FencedTexts(t)} : t \in BaseDocs}
        \cup UNION {{Input("missingComma", t, m) : m \in MissingCommaTexts(t)} : t \in BaseDocs}
        \cup UNION {{Input("truncated", t, m) : m \in TruncatedTexts(t)} : t \in BaseDocs}
        \cup {Input("other", <<>>, t) : t \in OtherTexts}

(***************************************************************************)
(* The parser as a state machine: a text is given, then one of the         *)
(* functions of parser.ts is applied to it.                                *)
(***************************************************************************)
ParserInit ==
    /\ \E x \in Inputs :
          /\ content = x.text
          /\ given = [kind |-> x.kind, base |-> x.base]
    /\ op = "none"
    /\ ret = NoMatch

FilterIdle ==
    /\ rawProducts = <<>>
    /\ fop = "none"
    /\ fret = <<>>

\* extractJson(content)
ExtractJson ==
    /\ op = "none"
    /\ op' = "extractJson"
    /\ ret' = extractJson(content)
    /\ UNCHANGED <<content, given, filterVars, serviceVars>>

\* fixCommonJsonIssues(content)
FixCommonJsonIssues ==
    /\ op = "none"
    /\ op' = "fixCommonJsonIssues"
    /\ ret' = [found |-> TRUE, text |-> fixCommonJsonIssues(content)]
    /\ UNCHANGED <<content, given, filterVars, serviceVars>>

\* parseProducts(content)
ParseProducts ==
    /\ op = "none"
    /\ op' = "parseProducts"
    /\ ret' = parseProducts(content)
    /\ UNCHANGED <<content, given, filterVars, serviceVars>>

ParserNext == ExtractJson \/ FixCommonJsonIssues \/ ParseProducts

\* A text is given to the parser; the filter is not used.
ParserSpecInit == ParserInit /\ FilterIdle /\ ServiceIdle

ParserSpec == ParserSpecInit /\ [][ParserNext]_vars

(***************************************************************************)
(* filter.service.ts: products are the values productSchema returns        *)
(***************************************************************************)
\* The value of a member that is absent.
Undefined == [t |-> "undefined"]

\* v.k and v?.k: the member k of object v, undefined where v has none.
Member(v, k) == IF v.t = "obj" /\ k \in DOMAIN v.m THEN v.m[k] ELSE Undefined

\* Whether a value counts as true in a condition: the empty text, the number
\* zero, null and undefined do not.
Truthy(v) ==
    CASE v.t = "str" -> v.s # <<>>
      [] v.t = "num" -> ~NumIsZero(v.lit)
      [] v.t = "bool" -> v.b
      [] v.t \in {"obj", "arr"} -> TRUE
      [] OTHER -> FALSE

\* v.length of a text or an array.
LengthOf(v) == IF v.t = "str" THEN Len(v.s) ELSE IF v.t = "arr" THEN Len(v.items) ELSE 0

\* A score is written in thousandths; 701 and 799 stand for the doubles
\* 0.7000000000000001 and 0.7999999999999999, the neighbours of 0.7 and 0.8.
BaseScore == 500

NameBonus == 100

DescriptionBonus == 100

PriceBonus == 150

SourceBonus == 100

SpecsBonus == 50

ScoreCap == 1000

NameLongerThan == 5

DescriptionLongerThan == 20

\* score += bonus in double arithmetic, on the values a score takes: 0.65 + 0.05
\* and 0.7 + 0.1 round away from 0.7 and 0.8, every other sum is the nearest
\* double of the decimal sum.
Plus(score, bonus) ==
    CASE score = 650 /\ bonus = 50 -> 701
      [] score = 700 /\ bonus = 100 -> 799
      [] score = 799 /\ bonus = 50 -> 850
      [] OTHER -> score + bonus

\* if (cond) score += bonus
AddIf(score, cond, bonus) == IF cond THEN Plus(score, bonus) ELSE score

NameScores(product) ==
    Truthy(Member(product, kName)) /\ LengthOf(Member(product, kName)) > NameLongerThan

DescriptionScores(product) ==
    /\ Truthy(Member(product, kDescription))
    /\ LengthOf(Member(product, kDescription)) > DescriptionLongerThan

PriceScores(product) ==
    \/ Truthy(Member(Member(product, kPrice), kValue))
    \/ Truthy(Member(Member(product, kPrice), kMin))

SourceScores(product) == Truthy(Member(Member(product, kSource), kUrl))

SpecsScores(product) ==
    Truthy(Member(product, kSpecs)) /\ LengthOf(Member(product, kSpecs)) > 0

calculateRelevanceScore(product) ==
    Min(AddIf(AddIf(AddIf(AddIf(AddIf(BaseScore,
                                      NameScores(product), NameBonus),
                                DescriptionScores(product), DescriptionBonus),
                          PriceScores(product), PriceBonus),
                    SourceScores(product), SourceBonus),
              SpecsScores(product), SpecsBonus),
        ScoreCap)

\* replace(/\s+/g, ' '): every run of whitespace becomes one space.
Spaced(t) == [k \in 1..Len(t) |-> IF t[k] \in ReWs THEN SP ELSE t[k]]

CollapseWhitespace(s) ==
    Spaced(CharsAt(s, Positions(s, LAMBDA i : s[i] \notin ReWs \/ i = 1 \/ s[i - 1] \notin ReWs)))

\* Line 46 without toLowerCase().
normalizedNameAsWritten(product) == Trim(CollapseWhitespace(product.m[kName].s))

\* product.name.toLowerCase().replace(/\s+/g, ' ').trim()
normalizedName(product) == Trim(CollapseWhitespace(ToLower(product.m[kName].s)))

\* An entry of the Map seen; the entries are kept in insertion order.
Entry(key, product) == [key |-> key, product |-> product]

\* The position of key among the entries, 0 where seen has no such key.
KeyIndex(seen, key) == FirstOr(Positions(seen, LAMBDA i : seen[i].key = key), 0)

\* Line 53 with >= for >: on equal scores the later record wins.
ReplacesOnTie(product, existing) ==
    calculateRelevanceScore(product) >= calculateRelevanceScore(existing)

\* Line 53: the later record replaces the kept one.
Replaces(product, existing) ==
    calculateRelevanceScore(product) > calculateRelevanceScore(existing)

\* Lines 48-56, with i the position of the key in seen.
SeenSet(seen, i, key, product) ==
    IF i = 0 THEN Append(seen, Entry(key, product))
    ELSE IF Replaces(product, seen[i].product) THEN [seen EXCEPT ![i] = Entry(key, product)]
    ELSE seen

\* Lines 46-56: one turn of the loop.
SeenWith(seen, key, product) == SeenSet(seen, KeyIndex(seen, key), key, product)

\* Lines 43-57: seen after the first n products.
RECURSIVE SeenAfter(_, _)
SeenAfter(products, n) ==
    IF n = 0 THEN <<>>
    ELSE SeenWith(SeenAfter(products, n - 1), normalizedName(products[n]), products[n])

\* Line 59: Array.from(seen.values())
Values(seen) == [k \in 1..Len(seen) |-> seen[k].product]

deduplicateProducts(products) == Values(SeenAfter(products, Len(products)))

\* The letters with an accent of the patterns of filterNonProducts.
EACUTE == "e-acute"

OACUTE == "o-acute"

\* The no-break space Intl.NumberFormat puts after the currency sign.
NBSP == "NBSP"

\* Whether text pat occurs in text s.
Contains(s, pat) ==
    \E i \in 1..(Len(s) - Len(pat) + 1) : SubSeq(s, i, i + Len(pat) - 1) = pat

\* Lines 22-31: the patterns, each a plain text searched without regard to case.
nonProductPatterns ==
    <<<<"c", "o", "m", "o", SP, "f", "a", "z", "e", "r">>,
      <<"t", "u", "t", "o", "r", "i", "a", "l">>,
      <<"g", "u", "i", "a", SP, "d", "e">>,
      <<"r", "e", "v", "i", "e", "w">>,
      <<"c", "o", "m", "p", "a", "r", "a", "t", "i", "v", "o">>,
      <<"d", "i", "c", "a", "s", SP, "d", "e">>,
      <<"o", SP, "q", "u", "e", SP, EACUTE>>,
      <<"h", "i", "s", "t", OACUTE, "r", "i", "a", SP, "d", "e">>>>

\* product.description || ''
DescriptionOrEmpty(v) == IF Truthy(v) THEN v.s ELSE <<>>

\* Line 34: `${product.name} ${product.description || ''}`.toLowerCase()
ProductText(product) ==
    ToLower(product.m[kName].s \o <<SP>> \o DescriptionOrEmpty(Member(product, kDescription)))

\* Line 35: no pattern matches the text.
MatchesNone(text) ==
    \A k \in 1..Len(nonProductPatterns) : ~Contains(text, nonProductPatterns[k])

\* Line 35 with the first pattern only.
MatchesNotTheFirst(text) == ~Contains(text, nonProductPatterns[1])

IsProductLike(product) == MatchesNone(ProductText(product))

filterNonProducts(products) == SelectSeq(products, IsProductLike)

DigitChars == <<"0", "1", "2", "3", "4", "5", "6", "7", "8", "9">>

\* The decimal digits of natural number n.
RECURSIVE DigitsOf(_)
DigitsOf(n) ==
    IF n < 10 THEN <<DigitChars[n + 1]>>
    ELSE Append(DigitsOf(n \div 10), DigitChars[(n % 10) + 1])

\* The text of a score as JSON writes the double: 701 and 799 are the
\* neighbours of 0.7 and 0.8, 1000 is 1, and the other scores are 0.ddd
\* without the zeros at the end.
ScoreLit(n) ==
    CASE n = 701 -> <<"0", ".", "7">> \o Repeat("0", 14) \o <<"1">>
      [] n = 799 -> <<"0", ".", "7">> \o Repeat("9", 15)
      [] n = 1000 -> <<"1">>
      [] n = 0 -> <<"0">>
      [] n % 100 = 0 -> <<"0", ".">> \o DigitsOf(n \div 100)
      [] n % 10 = 0 -> <<"0", ".">> \o Tail(DigitsOf(100 + (n \div 10)))
      [] OTHER -> <<"0", ".">> \o Tail(DigitsOf(1000 + n))

\* The score a relevance_score member holds, in thousandths: those written by
\* the first three digits after the point, and one more for the digit 1 at
\* the end of 0.7000000000000001.
ScoreOfLit(lit) ==
    IF IndexOf(lit, ".") = 0 THEN 1000 * DigitsVal(lit, 0)
    ELSE DigitsVal(SubSeq(From(lit, 3) \o <<"0", "0">>, 1, 3), 0)
            + (IF Len(lit) > 5 /\ lit[Len(lit)] = "1" THEN 1 ELSE 0)

ScoreOf(v) == ScoreOfLit(v.lit)

\* The hundredths of the number written by literal lit (no exponent, at most
\* two digits after the point), as format rounds it to two decimals.
Hundredths(int, frac) == DigitsVal(int, 0) * 100 + DigitsVal(SubSeq(frac \o <<"0", "0">>, 1, 2), 0)

HundredthsOf(lit, dot) ==
    IF dot = 0 THEN Hundredths(lit, <<>>)
    ELSE Hundredths(SubSeq(lit, 1, dot - 1), From(lit, dot + 1))

\* The digits of an integer in groups of three with a point between them.
RECURSIVE Grouped(_)
Grouped(ds) ==
    IF Len(ds) <= 3 THEN ds
    ELSE Grouped(SubSeq(ds, 1, Len(ds) - 3)) \o <<".">> \o SubSeq(ds, Len(ds) - 2, Len(ds))

\* The sign of the currency in the pt-BR locale.
CurrencySign(currency) == IF currency = USD THEN <<"U", "S", "$">> ELSE <<"R", "$">>

\* Lines 79-82: Intl.NumberFormat('pt-BR', {style: 'currency', currency}).format
FormatCurrency(h, currency) ==
    CurrencySign(currency) \o <<NBSP>> \o Grouped(DigitsOf(h \div 100))
        \o <<",">> \o Tail(DigitsOf(100 + (h % 100)))

\* Lines 76-83; currency is BRL where the caller passes undefined.
formatPrice(value, currency) ==
    IF ~Truthy(value) THEN Undefined
    ELSE JStr(FormatCurrency(HundredthsOf(value.lit, IndexOf(value.lit, ".")),
                             IF currency.t = "str" THEN currency.s ELSE BRL))

\* a || b
Or(a, b) == IF Truthy(a) THEN a ELSE b

\* Object m with member k set to v; a member set to undefined is left out, as
\* it is when the product is written as JSON.
WithMember(m, k, v) ==
    IF v = Undefined THEN [j \in DOMAIN m \ {k} |-> m[j]]
    ELSE [j \in DOMAIN m \cup {k} |-> IF j = k THEN v ELSE m[j]]

\* Lines 69-72: the price with its formatted text, undefined without a price.
EnrichedPrice(price) ==
    IF ~Truthy(price) THEN Undefined
    ELSE JObj(WithMember(price.m, kFormatted,
                         formatPrice(Or(Member(price, kValue), Member(price, kMin)),
                                     Member(price, kCurrency))))

\* Lines 66-73: one product of the map.
EnrichedProduct(product) ==
    JObj(WithMember(WithMember(product.m, kRelevanceScore,
                               JNum(ScoreLit(calculateRelevanceScore(product)))),
                    kPrice, EnrichedPrice(Member(product, kPrice))))

enrichProducts(products) == [i \in 1..Len(products) |-> EnrichedProduct(products[i])]

\* b.relevance_score || 0, in thousandths.
ScoreOrZero(v) == IF Truthy(v) THEN ScoreOf(v) ELSE 0

\* Line 94: the comparator of the sort, (b.relevance_score || 0) - (a.relevance_score || 0).
Compare(a, b) ==
    ScoreOrZero(Member(b, kRelevanceScore)) - ScoreOrZero(Member(a, kRelevanceScore))

\* An unstable sort: an element goes before the elements it compares equal to.
StaysBeforeOnlyIfLess(a, b) == Compare(a, b) < 0

\* Array.prototype.sort is stable: element a, which came first, stays before
\* b unless the comparator puts b first.
StaysBefore(a, b) == Compare(a, b) <= 0

\* sorted with x put in: after the elements that stay before it.
Inserted(sorted, x) ==
    SelectSeq(sorted, LAMBDA e : StaysBefore(e, x))
        \o <<x>> \o SelectSeq(sorted, LAMBDA e : ~StaysBefore(e, x))

\* Line 94: the first n elements of list, sorted.
RECURSIVE SortedAfter(_, _)
SortedAfter(list, n) ==
    IF n = 0 THEN <<>> ELSE Inserted(SortedAfter(list, n - 1), list[n])

Sort(list) == SortedAfter(list, Len(list))

\* Lines 88-95
processProducts(products) ==
    Sort(enrichProducts(deduplicateProducts(filterNonProducts(products))))

(***************************************************************************)
(* logger.ts, lines 123-268: the URL classifier                            *)
(***************************************************************************)
\* The characters the URL parser strips from both ends of its input.
UrlTrimChars == {SP, TAB, LF, CR, NUL}

UrlTrim(s) == SubSeq(s, SkipSet(s, 1, UrlTrimChars), SkipSetBack(s, Len(s), UrlTrimChars))

\* The schemes whose URLs have a host and a path of segments.
SpecialSchemes == {<<"h", "t", "t", "p">>, <<"h", "t", "t", "p", "s">>}

\* The first position at or after i of a character of set C, Len(s) + 1 if none.
FindSet(s, i, C) == FirstOr(Positions(s, LAMBDA j : j >= i /\ s[j] \in C), Len(s) + 1)

\* A path with / for every \ and "/" for the empty path.
PathOf(p) == IF p = <<>> THEN <<"/">> ELSE [i \in 1..Len(p) |-> IF p[i] = BSL THEN "/" ELSE p[i]]

\* "?" alone is an empty query and "#" alone an empty fragment.
SearchOf(q) == IF Len(q) <= 1 THEN <<>> ELSE q

\* The parts of a parsed URL; href is its serialization.
UrlParts(scheme, host, pathname, query, hash) ==
    [ok |-> TRUE,
     href |-> scheme \o <<":", "/", "/">> \o host \o pathname \o query \o hash,
     pathname |-> pathname,
     search |-> SearchOf(query)]

\* An http or https URL: t is the text after the scheme, the colon and the
\* slashes; the host ends at a, the path at q and the query at h.
SpecialUrl(scheme, t, a, q, h) ==
    UrlParts(scheme, ToLower(SubSeq(t, 1, a - 1)), PathOf(SubSeq(t, a, q - 1)),
             SubSeq(t, q, h - 1), From(t, h))

SpecialUrlAt(scheme, t, h) ==
    SpecialUrl(scheme, t, Min(FindSet(t, 1, {"/", BSL, "?"}), h),
               Min(FindSet(t, 1, {"?"}), h), h)

\* A URL of another scheme: the text after the colon is its path.
OpaqueUrl(scheme, t, q, h) ==
    [ok |-> TRUE,
     href |-> scheme \o <<":">> \o t,
     pathname |-> SubSeq(t, 1, q - 1),
     search |-> SearchOf(SubSeq(t, q, h - 1))]

\* The URL written by text s, which has its colon at c.
UrlAt(s, c, scheme) ==
    IF scheme \in SpecialSchemes
    THEN SpecialUrlAt(scheme, From(s, SkipSet(s, c + 1, {"/", BSL})),
                      FindSet(From(s, SkipSet(s, c + 1, {"/", BSL})), 1, {"#"}))
    ELSE OpaqueUrl(scheme, From(s, c + 1),
                   Min(FindSet(From(s, c + 1), 1, {"?"}), FindSet(From(s, c + 1), 1, {"#"})),
                   FindSet(From(s, c + 1), 1, {"#"}))

NotAUrl == [ok |-> FALSE, href |-> <<>>, pathname |-> <<>>, search |-> <<>>]

UrlOfTrimmed(s) ==
    IF IsUrl(s) THEN UrlAt(s, IndexOf(s, ":"), ToLower(SubSeq(s, 1, IndexOf(s, ":") - 1)))
    ELSE NotAUrl

\* new URL(s): ok is FALSE where the constructor throws.
NewUrl(s) == UrlOfTrimmed(UrlTrim(s))

\* A pattern: one of the texts alts, followed by a character of set next
\* where next is not empty, searched without regard to case.
Pattern(alts, next) == [alts |-> alts, next |-> next]

\* Whether text lit stands at position i of s, followed as next demands.
MatchesAt(s, i, lit, next) ==
    /\ i + Len(lit) - 1 <= Len(s)
    /\ SubSeq(s, i, i + Len(lit) - 1) = lit
    /\ next # {} => (i + Len(lit) <= Len(s) /\ s[i + Len(lit)] \in next)

\* pattern.test(s) for a pattern with the flag i.
TestLower(pattern, s) ==
    \E lit \in pattern.alts : \E i \in 1..Len(s) : MatchesAt(s, i, lit, pattern.next)

Test(pattern, s) == TestLower(pattern, ToLower(s))

\* /\d{6,}/.test(s)
SixDigits == 6

TestDigits(s) ==
    \E i \in 1..(Len(s) - SixDigits + 1) : \A j \in i..(i + SixDigits - 1) : s[j] \in Digits

\* Lines 127-149
SEARCH_URL_PATTERNS ==
    <<Pattern({<<"/", "b", "u", "s", "c", "a", "/">>}, {}),
      Pattern({<<"/", "s", "e", "a", "r", "c", "h">>}, {}),
      Pattern({<<"/", "s", "?">>}, {}),
      Pattern({<<"/", "s", "/">>}, {}),
      Pattern({<<"?", "q", "=">>, <<"&", "q", "=">>}, {}),
      Pattern({<<"?", "q", "u", "e", "r", "y", "=">>, <<"&", "q", "u", "e", "r", "y", "=">>}, {}),
      Pattern({<<"?", "s", "e", "a", "r", "c", "h", "=">>,
               <<"&", "s", "e", "a", "r", "c", "h", "=">>}, {}),
      Pattern({<<"?", "s", "=">>, <<"&", "s", "=">>}, {}),
      Pattern({<<"?", "k", "=">>, <<"&", "k", "=">>}, {}),
      Pattern({<<"/", "c", "a", "t", "e", "g", "o", "r", "i", "a", "/">>}, {}),
      Pattern({<<"/", "c", "a", "t", "e", "g", "o", "r", "y", "/">>}, {}),
      Pattern({<<"/", "b", "r", "o", "w", "s", "e", "/">>}, {}),
      Pattern({<<"/", "r", "e", "s", "u", "l", "t", "s", "/">>}, {}),
      Pattern({<<"/", "p", "r", "o", "d", "u", "t", "o", "s", "?">>}, {}),
      Pattern({<<"/", "p", "r", "o", "d", "u", "c", "t", "s", "?">>}, {}),
      Pattern({<<"/", "l", "i", "s", "t", "a", "/">>}, {}),
      Pattern({<<"/", "l", "i", "s", "t", "/">>}, {}),
      Pattern({<<"/", "c", "a", "t", "a", "l", "o", "g", "o", "/">>}, {}),
      Pattern({<<"/", "c", "a", "t", "a", "l", "o", "g", "/">>}, {}),
      Pattern({<<"/", "d", "e", "p", "a", "r", "t", "a", "m", "e", "n", "t", "o", "/">>}, {}),
      Pattern({<<"/", "d", "e", "p", "a", "r", "t", "m", "e", "n", "t", "/">>}, {})>>

\* Lines 152-161; the pattern of line 162 is TestDigits.
PRODUCT_URL_PATTERNS ==
    <<Pattern({<<"/", "d", "p", "/">>}, LowerLetters \cup Digits),
      Pattern({<<"/", "p", "r", "o", "d", "u", "t", "o", "/">>}, Digits),
      Pattern({<<"/", "p", "/">>}, Digits),
      Pattern({<<"/", "p", "r", "o", "d", "u", "c", "t", "/">>}, Digits),
      Pattern({<<"/", "m", "l", "b">>, <<"/", "m", "l", "b", "-">>}, Digits),
      Pattern({<<"/", "i", "t", "e", "m", "/">>}, Digits),
      Pattern({<<"/", "s", "k", "u", "/">>}, Digits),
      Pattern({<<"/", "i", "d", "/">>}, Digits),
      Pattern({<<"/", "p", "d", "/">>}, Digits)>>

\* Lines 178-182: some pattern matches the full URL, the path or the query,
\* all three in lower case.
SearchPatternMatches(u) ==
    \E k \in 1..Len(SEARCH_URL_PATTERNS) :
        \/ Test(SEARCH_URL_PATTERNS[k], u.href)
        \/ Test(SEARCH_URL_PATTERNS[k], u.pathname)
        \/ Test(SEARCH_URL_PATTERNS[k], u.search)

\* Lines 171-187, with u the result of new URL(url).
IsSearchParsed(u) == IF u.ok THEN SearchPatternMatches(u) ELSE TRUE

\* Lines 168-188
isSearchUrl(s) == IF s = <<>> THEN TRUE ELSE IsSearchParsed(NewUrl(s))

\* Lines 207-211
ProductPatternMatches(u) ==
    \/ \E k \in 1..Len(PRODUCT_URL_PATTERNS) :
          Test(PRODUCT_URL_PATTERNS[k], u.href) \/ Test(PRODUCT_URL_PATTERNS[k], u.pathname)
    \/ TestDigits(u.href)
    \/ TestDigits(u.pathname)

\* Line 215: pathname.split('/').filter(s => s.length > 0), counted.
PathSegmentCount(pathname) ==
    Len(Positions(pathname, LAMBDA i : pathname[i] # "/" /\ (i = 1 \/ pathname[i - 1] = "/")))

MinPathSegments == 2

\* Lines 196-223 without the test of lines 202-204.
IsProductParsedOnly(s, u) ==
    IF ~u.ok THEN FALSE
    ELSE ProductPatternMatches(u) \/ PathSegmentCount(u.pathname) >= MinPathSegments

\* Lines 196-223, with u the result of new URL(url).
IsProductParsed(s, u) ==
    IF ~u.ok THEN FALSE
    ELSE IF isSearchUrl(s) THEN FALSE
    ELSE ProductPatternMatches(u) \/ PathSegmentCount(u.pathname) >= MinPathSegments

\* Lines 193-224
isProductUrl(s) == IF s = <<>> THEN FALSE ELSE IsProductParsed(s, NewUrl(s))

\* product.source?.url as a text: the empty text where there is none.
SourceUrl(product) ==
    IF Truthy(Member(Member(product, kSource), kUrl)) THEN product.m[kSource].m[kUrl].s ELSE <<>>

\* Lines 241-253 without lines 241-245: a product without URL is not kept.
KeptOnlyWithUrl(product) == SourceUrl(product) # <<>> /\ ~isSearchUrl(SourceUrl(product))

\* Lines 241-253: whether the product is pushed to validProducts.
KeptByUrl(product) == SourceUrl(product) = <<>> \/ ~isSearchUrl(SourceUrl(product))

RemovedByUrl(product) == ~KeptByUrl(product)

\* Lines 230-268
filterProductsByUrl(list) ==
    [validProducts |-> SelectSeq(list, KeptByUrl),
     invalidCount |-> Len(SelectSeq(list, RemovedByUrl)),
     invalidUrls |-> [i \in 1..Len(SelectSeq(list, RemovedByUrl)) |->
                         SourceUrl(SelectSeq(list, RemovedByUrl)[i])]]

(***************************************************************************)
(* search.service.ts, lines 198-378: the image resolver                    *)
(*                                                                         *)
(* A page is given by its meta tags and by the texts of its JSON-LD script *)
(* blocks, both in the order of the document. A meta tag is given by the   *)
(* attribute that names it ("property" or "name"), the value of that       *)
(* attribute, the text between the quotes of its content attribute, and    *)
(* whether the content attribute comes first in the tag.                   *)
(***************************************************************************)
Html(metas, scripts) == [metas |-> metas, scripts |-> scripts]

Meta(attr, value, text, contentFirst) ==
    [attr |-> attr, value |-> value, content |-> text, contentFirst |-> contentFirst]

OgImage == <<"o", "g", ":", "i", "m", "a", "g", "e">>

TwitterImage == <<"t", "w", "i", "t", "t", "e", "r", ":", "i", "m", "a", "g", "e">>

kImage == <<"i", "m", "a", "g", "e">>

kOffers == <<"o", "f", "f", "e", "r", "s">>

\* Lines 303-310: the group ([^"']+) of the content attribute, the text up to
\* its first quote of either kind.
Captured(text) == SubSeq(text, 1, FindSet(text, 1, {QT, "'"}) - 1)

\* Whether one of the two expressions of lines 303-310 matches the tag: the
\* one with the content attribute last, or the one with it first.
TagMatches(tag, attr, value, contentFirst) ==
    /\ tag.attr = attr
    /\ ToLower(tag.value) = value
    /\ tag.contentFirst = contentFirst
    /\ Captured(tag.content) # <<>>

\* match?.[1] ?? null for the tags an expression matches.
FirstCaptured(matching) ==
    IF matching = <<>> THEN JNull ELSE JStr(Captured(matching[1].content))

\* Line 312: html.match(regex) || html.match(regexAlt)
MatchOr(match, metas, attr, value) ==
    IF match # JNull THEN match
    ELSE FirstCaptured(SelectSeq(metas, LAMBDA tag : TagMatches(tag, attr, value, TRUE)))

\* Lines 298-315
extractMetaContent(html, attr, value) ==
    MatchOr(FirstCaptured(SelectSeq(html.metas,
                                    LAMBDA tag : TagMatches(tag, attr, value, FALSE))),
            html.metas, attr, value)

\* images[0] of an array: undefined when the array is empty.
FirstItem(v) == IF v.items = <<>> THEN Undefined ELSE v.items[1]

\* Lines 354-358: what node.offers.image gives.
ImageOfOffers(offersImage) ==
    IF ~Truthy(offersImage) THEN JNull
    ELSE IF offersImage.t = "str" THEN offersImage
    ELSE IF offersImage.t = "arr" /\ FirstItem(offersImage).t = "str"
    THEN FirstItem(offersImage)
    ELSE JNull

\* Lines 347-351: what the first item of the array node.image gives.
ImageOfFirst(first, node) ==
    IF first.t = "str" THEN first
    ELSE IF Truthy(first) /\ Member(first, kUrl).t = "str" THEN Member(first, kUrl)
    ELSE ImageOfOffers(Member(Member(node, kOffers), kImage))

\* Lines 344-361: an object.
ImageOfObject(node) ==
    IF Member(node, kImage).t = "str" THEN Member(node, kImage)
    ELSE IF Member(node, kImage).t = "arr" THEN ImageOfFirst(FirstItem(Member(node, kImage)), node)
    ELSE ImageOfOffers(Member(Member(node, kOffers), kImage))

\* Lines 338-343 and 325-326: the first of the images that is a text and not
\* empty, null when there is none.
FirstImageOf(images) ==
    IF Positions(images, LAMBDA i : Truthy(images[i])) = <<>> THEN JNull
    ELSE images[Positions(images, LAMBDA i : Truthy(images[i]))[1]]

\* Lines 335-365
RECURSIVE extractImageFromJsonLdObject(_)
extractImageFromJsonLdObject(node) ==
    IF ~Truthy(node) THEN JNull
    ELSE IF node.t = "arr"
    THEN FirstImageOf([i \in 1..Len(node.items) |-> extractImageFromJsonLdObject(node.items[i])])
    ELSE IF node.t = "obj" THEN ImageOfObject(node)
    ELSE JNull

\* Lines 323-329: the image of one block; null where JSON.parse throws.
ImageOfParsed(data) == IF data.ok THEN extractImageFromJsonLdObject(data.v) ELSE JNull

ImageOfBlock(jsonText) == ImageOfParsed(JsonParse(Trim(jsonText)))

\* Lines 317-333
extractFromJsonLd(html) ==
    FirstImageOf([i \in 1..Len(html.scripts) |-> ImageOfBlock(html.scripts[i])])

\* Whether text s starts with a scheme and a colon.
HasScheme(s) ==
    /\ IndexOf(s, ":") > 1
    /\ s[1] \in LowerLetters \cup UpperLetters
    /\ \A i \in 1..(IndexOf(s, ":") - 1) : s[i] \in SchemeChars

\* The scheme, the slashes and the host of a parsed http or https URL.
Origin(u) == SubSeq(u.href, 1, FindSet(u.href, 9, {"/"}) - 1)

\* The path of a parsed URL up to and with its last slash.
Directory(pathname) == SubSeq(pathname, 1, LastIndexOf(pathname, "/"))

\* Whether a parsed URL is an http or https URL.
IsSpecial(u) == Len(u.href) > 4 /\ SubSeq(u.href, 1, 4) = <<"h", "t", "t", "p">>

\* A text src without a scheme, resolved against a parsed URL b: src starts
\* with the slashes and a host, or is a path from the root, or a path from the
\* directory of b.
Resolved(src, b) ==
    IF ~IsSpecial(b) THEN NotAUrl
    ELSE IF Len(src) > 1 /\ src[1] = "/" /\ src[2] = "/"
    THEN NewUrl(SubSeq(b.href, 1, IndexOf(b.href, ":")) \o src)
    ELSE IF src # <<>> /\ src[1] = "/" THEN NewUrl(Origin(b) \o src)
    ELSE NewUrl(Origin(b) \o Directory(b.pathname) \o src)

\* new URL(src, base): ok is FALSE where the constructor throws.
NewUrlWithBase(src, base) ==
    IF ~NewUrl(base).ok THEN NotAUrl
    ELSE IF HasScheme(UrlTrim(src)) THEN NewUrl(src)
    ELSE Resolved(UrlTrim(src), NewUrl(base))

\* Lines 372-376
RelativeOrRaw(src, u) == IF u.ok THEN u.href ELSE src

\* Lines 368-377
AbsoluteOr(src, base, u) ==
    IF u.ok THEN u.href ELSE RelativeOrRaw(src, NewUrlWithBase(src, base))

toAbsoluteUrl(src, base) == AbsoluteOr(src, base, NewUrl(src))

\* Lines 279-289 with the twitter:image tag before the og:image tag.
TwitterBeforeOg(og, twitter, html) ==
    IF Truthy(twitter) THEN twitter
    ELSE IF Truthy(og) THEN og
    ELSE extractFromJsonLd(html)

\* Lines 279-289: the first candidate that is a text and not empty.
OgBeforeTwitter(og, twitter, html) ==
    IF Truthy(og) THEN og
    ELSE IF Truthy(twitter) THEN twitter
    ELSE extractFromJsonLd(html)

Candidate(html) ==
    OgBeforeTwitter(extractMetaContent(html, "property", OgImage),
                    extractMetaContent(html, "name", TwitterImage), html)

\* Lines 291-295
ImageOfCandidate(candidate, baseUrl) ==
    IF ~Truthy(candidate) THEN JNull ELSE JStr(toAbsoluteUrl(candidate.s, baseUrl))

\* Lines 277-296
extractImageFromHtml(html, baseUrl) == ImageOfCandidate(Candidate(html), baseUrl)

\* Line 221
maxToResolve == 5

\* The state of one call of resolveProductImages: the list and the images as
\* they were passed, the products and allImages as they are now, the position i of the loop
\* (from 1), whether the call awaits fetchHtml for the product at i, and
\* whether it has returned; lookups are the positions for which the call has
\* asked imageCache (line 236).
CallState(passed, list, allImages, i, awaiting, returned) ==
    [passed |-> passed, products |-> list, existing |-> allImages, images |-> allImages,
     i |-> i, awaiting |-> awaiting, returned |-> returned, lookups |-> <<>>]

\* Line 236: imageCache.has(sourceUrl) for the product at i.
LookedUp(call) == [call EXCEPT !.lookups = Append(@, call.i)]

\* Lines 216-218
ImagesGiven(existingImages) == IF existingImages.t = "arr" THEN existingImages.items ELSE <<>>

\* cached ?? undefined
OrUndefined(v) == IF v = JNull THEN Undefined ELSE v

\* Lines 254-256
Pushed(allImages, image) ==
    IF \E k \in 1..Len(allImages) : allImages[k] = image THEN allImages
    ELSE Append(allImages, image)

\* Lines 252-257 with a record that got no image taken out of the list.
FinishedDropping(call, finalImage) ==
    IF Truthy(finalImage)
    THEN [call EXCEPT !.products[call.i] = JObj(WithMember(@.m, kImageUrl, finalImage)),
                      !.images = Pushed(@, finalImage),
                      !.i = @ + 1,
                      !.awaiting = FALSE]
    ELSE [call EXCEPT !.products = SubSeq(@, 1, call.i - 1) \o SubSeq(@, call.i + 1, Len(@)),
                      !.awaiting = FALSE]

\* Lines 252-257 and the step of the loop: the call after the product at i
\* got finalImage.
Finished(call, finalImage) ==
    IF Truthy(finalImage)
    THEN [call EXCEPT !.products[call.i] = JObj(WithMember(@.m, kImageUrl, finalImage)),
                      !.images = Pushed(@, finalImage),
                      !.i = @ + 1,
                      !.awaiting = FALSE]
    ELSE [call EXCEPT !.i = @ + 1, !.awaiting = FALSE]

\* Line 226 without its bound: the loop goes through the whole list.
PastNoLimit(i) == FALSE

\* Line 226: i >= maxToResolve, with i counted from 1.
PastLimit(i) == i - 1 >= maxToResolve

\* Lines 223-258 from position call.i up to the next await of fetchHtml or
\* to the return; no other call runs in between.
RECURSIVE RunFrom(_, _)
RunFrom(call, cache) ==
    IF call.i > Len(call.products) \/ PastLimit(call.i)
    THEN [call EXCEPT !.returned = TRUE]
    ELSE IF Truthy(Member(call.products[call.i], kImageUrl))
    THEN RunFrom(Finished(call, Member(call.products[call.i], kImageUrl)), cache)
    ELSE IF SourceUrl(call.products[call.i]) = <<>>
    THEN RunFrom(Finished(call, Undefined), cache)
    ELSE IF SourceUrl(call.products[call.i]) \in DOMAIN cache
    THEN RunFrom(Finished(LookedUp(call),
                          OrUndefined(cache[SourceUrl(call.products[call.i])])), cache)
    ELSE [LookedUp(call) EXCEPT !.awaiting = TRUE]

\* imageCache.set(key, value)
CacheSet(cache, key, value) ==
    [k \in DOMAIN cache \cup {key} |-> IF k = key THEN value ELSE cache[k]]

\* The URL the call awaits the page of.
AwaitedUrl(call) == SourceUrl(call.products[call.i])

\* A page fetch: the call that issued it, the position of the product and the URL.
Fetch(c, call) == [call |-> c, index |-> call.i - 1, url |-> AwaitedUrl(call)]

\* The fetches issued so far, after call number c has run up to its await or
\* its return.
LogAfter(log, c, call) == IF call.awaiting THEN Append(log, Fetch(c, call)) ELSE log

(***************************************************************************)
(* part_000, lines 138-216: the shopping provider and its shape adapter    *)
(***************************************************************************)
kTitle == <<"t", "i", "t", "l", "e">>

kLink == <<"l", "i", "n", "k">>

kProductLink == <<"p", "r", "o", "d", "u", "c", "t", "_", "l", "i", "n", "k">>

kExtractedPrice == <<"e", "x", "t", "r", "a", "c", "t", "e", "d", "_", "p", "r", "i", "c", "e">>

kExtractedOldPrice == <<"e", "x", "t", "r", "a", "c", "t", "e", "d", "_", "o", "l", "d", "_",
       "p", "r", "i", "c", "e">>

kThumbnail == <<"t", "h", "u", "m", "b", "n", "a", "i", "l">>

kDelivery == <<"d", "e", "l", "i", "v", "e", "r", "y">>

kExtensions == <<"e", "x", "t", "e", "n", "s", "i", "o", "n", "s">>

\* An object of the members given as pairs of key and value; a member whose
\* value is undefined is left out, as it is when the object is written as JSON.
ObjOf(pairs) ==
    JObj([k \in {pairs[i][1] : i \in {j \in 1..Len(pairs) : pairs[j][2] # Undefined}} |->
             pairs[CHOOSE i \in 1..Len(pairs) : pairs[i][1] = k][2]])

\* Lines 201-205
commonBrands ==
    <<<<"A", "p", "p", "l", "e">>,
      <<"S", "a", "m", "s", "u", "n", "g">>,
      <<"X", "i", "a", "o", "m", "i">>,
      <<"M", "o", "t", "o", "r", "o", "l", "a">>,
      <<"L", "G">>,
      <<"S", "o", "n", "y">>,
      <<"D", "e", "l", "l">>,
      <<"H", "P">>,
      <<"L", "e", "n", "o", "v", "o">>,
      <<"A", "s", "u", "s">>,
      <<"A", "c", "e", "r">>,
      <<"M", "i", "c", "r", "o", "s", "o", "f", "t">>,
      <<"G", "o", "o", "g", "l", "e">>,
      <<"N", "i", "k", "e">>,
      <<"A", "d", "i", "d", "a", "s">>,
      <<"J", "B", "L">>,
      <<"B", "o", "s", "e">>,
      <<"P", "h", "i", "l", "i", "p", "s">>,
      <<"P", "a", "n", "a", "s", "o", "n", "i", "c">>,
      <<"C", "a", "n", "o", "n">>,
      <<"N", "i", "k", "o", "n">>,
      <<"L", "o", "g", "i", "t", "e", "c", "h">>,
      <<"R", "a", "z", "e", "r">>,
      <<"C", "o", "r", "s", "a", "i", "r">>>>

\* Line 215: title.split(' ')[0] || 'N/A'
FirstWordOr(title) ==
    IF SubSeq(title, 1, FindSet(title, 1, {SP}) - 1) = <<>> THEN <<"N", "/", "A">>
    ELSE SubSeq(title, 1, FindSet(title, 1, {SP}) - 1)

\* Lines 207-215, with brands the positions of the brands the title holds.
BrandAt(title, brands) ==
    IF brands = <<>> THEN FirstWordOr(title) ELSE commonBrands[brands[1]]

\* Lines 200-216
extractBrand(title) ==
    BrandAt(title, Positions(commonBrands,
                             LAMBDA i : Contains(ToLower(title), ToLower(commonBrands[i]))))

\* array.join(sep) for an array of texts.
RECURSIVE JoinTexts(_, _)
JoinTexts(items, sep) ==
    IF items = <<>> THEN <<>>
    ELSE IF Len(items) = 1 THEN items[1].s
    ELSE items[1].s \o sep \o JoinTexts(Tail(items), sep)

\* Line 160: item.extensions?.join('. ') || `${item.title} - ${item.source}`
DescriptionOf(item) ==
    IF Member(item, kExtensions).t = "arr" /\ JoinTexts(item.m[kExtensions].items, <<".", SP>>) # <<>>
    THEN JStr(JoinTexts(item.m[kExtensions].items, <<".", SP>>))
    ELSE JStr(Member(item, kTitle).s \o <<SP, "-", SP>> \o Member(item, kSource).s)

\* Line 178: 1 - (index * 0.05) as JSON writes the double, for the positions
\* 0 to 7.
PositionScores ==
    <<<<"1">>,
      <<"0", ".", "9", "5">>,
      <<"0", ".", "9">>,
      <<"0", ".", "8", "5">>,
      <<"0", ".", "8">>,
      <<"0", ".", "7", "5">>,
      <<"0", ".", "7">>,
      <<"0", ".", "6", "4", "9", "9", "9", "9", "9", "9", "9", "9", "9", "9", "9", "9", "9", "9">>>>

PositionScore(index) == JNum(PositionScores[index + 1])

Zero == JNum(<<"0">>)

\* Lines 163-169
PriceOf(item, country) ==
    ObjOf(<<<<kValue, Or(Member(item, kExtractedPrice), Zero)>>,
            <<kMin, Or(Member(item, kExtractedPrice), Zero)>>,
            <<kMax, Or(Member(item, kExtractedOldPrice), Or(Member(item, kExtractedPrice), Zero))>>,
            <<kCurrency, JStr(IF country = <<"b", "r">> THEN BRL ELSE USD)>>,
            <<kFormatted, Member(item, kPrice)>>>>)

\* Lines 170-173
SourceOf(item) ==
    ObjOf(<<<<kName, Member(item, kSource)>>,
            <<kUrl, Or(Member(item, kLink), Or(Member(item, kProductLink), JStr(<<>>)))>>>>)

\* Lines 158-179: the product made of the item at position index (from 0).
ProductOfItem(item, index, country) ==
    ObjOf(<<<<kName, Member(item, kTitle)>>,
            <<kDescription, DescriptionOf(item)>>,
            <<kBrand, JStr(extractBrand(Member(item, kTitle).s))>>,
            <<kCategory, JStr(<<"S", "h", "o", "p", "p", "i", "n", "g">>)>>,
            <<kPrice, PriceOf(item, country)>>,
            <<kSource, SourceOf(item)>>,
            <<kImageUrl, Member(item, kThumbnail)>>,
            <<kSpecs, Or(Member(item, kExtensions), JArr(<<>>))>>,
            <<kRating, Or(Member(item, kRating), JNull)>>,
            <<kAvailability,
              Or(Member(item, kDelivery),
                 JStr(<<"V", "e", "r", "i", "f", "i", "c", "a", "r", SP, "n", "o", SP,
                        "s", "i", "t", "e">>))>>,
            <<kRelevanceScore, PositionScore(index)>>>>)

\* Lines 150-179: the products of searchSerpApi for the results rawResults.
ProductsOfResults(rawResults, country) ==
    [i \in 1..Len(rawResults) |-> ProductOfItem(rawResults[i], i - 1, country)]

(***************************************************************************)
(* search.service.ts, lines 20-196: the search service, and the route of   *)
(* part_002 that answers with its response                                 *)
(***************************************************************************)
\* array.slice(0, n)
Slice(list, n) == SubSeq(list, 1, Min(n, Len(list)))

\* The image_url of each product that has one.
ImagesOf(list) ==
    [i \in 1..Len(SelectSeq(list, LAMBDA q : Truthy(Member(q, kImageUrl)))) |->
        SelectSeq(list, LAMBDA q : Truthy(Member(q, kImageUrl)))[i].m[kImageUrl]]

\* A successful response; the identifier of the request, the time taken and
\* the citations are left out.
SearchResponse(list, queryInterpreted, images) ==
    [success |-> TRUE, products |-> list, total_found |-> Len(list),
     query_interpreted |-> queryInterpreted, images |-> images]

\* part_002, lines 85-95: the answer to a search that threw.
ErrorResponse(message) ==
    [success |-> FALSE,
     code |-> IF Contains(message, <<"P", "e", "r", "p", "l", "e", "x", "i", "t", "y">>)
              THEN "PERPLEXITY_ERROR" ELSE "INTERNAL_ERROR",
     message |-> message]

\* Lines 26-33: the provider that serves the request.
ProviderOf(req, serpapiKey) ==
    IF req.provider = "serpapi" /\ serpapiKey THEN "serpapi" ELSE "gemini"

\* Line 83: the text that introduces the query, which the model leaves out.
ShoppingSummary ==
    [present |-> TRUE,
     s |-> <<"R", "e", "s", "u", "l", "t", "a", "d", "o", "s", SP, "d", "o", SP, "G", "o", "o",
             "g", "l", "e", SP, "S", "h", "o", "p", "p", "i", "n", "g">>]

\* Lines 57-95: the response for the products of searchSerpApi; a request
\* without serpapi_country searches in 'br'.
SerpApiResponseOf(req, list) ==
    SearchResponse(Slice(list, req.max_results), ShoppingSummary,
                   JArr(ImagesOf(Slice(list, req.max_results))))

\* part_000, lines 161 and 207: extractBrand(item.title) reads toLowerCase of
\* the title; for a result without a title that throws a TypeError, with the
\* message below, which lines 188-194 throw on.
TitleError ==
    <<"C", "a", "n", "n", "o", "t", SP, "r", "e", "a", "d", SP, "p", "r", "o", "p", "e", "r",
      "t", "i", "e", "s", SP, "o", "f", SP, "u", "n", "d", "e", "f", "i", "n", "e", "d", SP,
      "(", "r", "e", "a", "d", "i", "n", "g", SP, "'", "t", "o", "L", "o", "w", "e", "r", "C",
      "a", "s", "e", "'", ")">>

\* Whether one of the results makes the conversion of lines 158-179 throw.
Untitled(rawResults) ==
    \E i \in 1..Len(rawResults) : Member(rawResults[i], kTitle).t # "str"

\* Lines 49-95 and part_002, lines 82-100: the response of a request that the
\* shopping provider answered with rawResults.
SerpApiResponse(req, rawResults) ==
    IF Untitled(rawResults) THEN ErrorResponse(TitleError)
    ELSE SerpApiResponseOf(req, ProductsOfResults(rawResults, <<"b", "r">>))

\* What imageCache gets for a URL: page is what fetchHtml brings, a page or
\* Undefined where it throws.
ImageFetched(page, u) == IF page = Undefined THEN JNull ELSE extractImageFromHtml(page, u)

\* resolveProductImages from an await on, run to its return by a request that
\* is alone; every fetch has the outcome page.
RECURSIVE ResolvedAlone(_, _, _)
ResolvedAlone(call, cache, page) ==
    IF call.returned THEN [call |-> call, cache |-> cache]
    ELSE ResolvedAlone(RunFrom(Finished(call, OrUndefined(ImageFetched(page, AwaitedUrl(call)))),
                               CacheSet(cache, AwaitedUrl(call),
                                        ImageFetched(page, AwaitedUrl(call)))),
                       CacheSet(cache, AwaitedUrl(call), ImageFetched(page, AwaitedUrl(call))),
                       page)

\* Lines 153-154
ResolveAlone(list, existingImages, cache, page) ==
    ResolvedAlone(RunFrom(CallState(list, list, ImagesGiven(existingImages), 1, FALSE, FALSE),
                          cache),
                  cache, page)

\* Array.from(new Set(list))
RECURSIVE Unique(_)
Unique(list) ==
    IF list = <<>> THEN <<>>
    ELSE Pushed(Unique(SubSeq(list, 1, Len(list) - 1)), list[Len(list)])

\* Line 163
ArrayOrUndefined(allImages) == IF allImages = <<>> THEN Undefined ELSE JArr(allImages)

\* Lines 136-150: the products that go to resolveProductImages.
Normalized(parsed, maxResults) ==
    Slice(filterProductsByUrl(processProducts(parsed)).validProducts, maxResults)

\* Lines 133-190 with the outcome of resolveProductImages.
GeminiResponseOf(parseResult, llmImages, resolved) ==
    IF parseResult.products = <<>>
    THEN SearchResponse(<<>>, parseResult.searchSummary, llmImages)
    ELSE SearchResponse(resolved.call.products, parseResult.searchSummary,
                        ArrayOrUndefined(Unique(ImagesGiven(llmImages)
                                                    \o ImagesOf(resolved.call.products))))

(***************************************************************************)
(* Input products of the filter                                            *)
(***************************************************************************)
\* Largest number of records in a list of colliding products.
MaxProducts == 3

Text(c, n) == JStr(Repeat(c, n))

NameShort == JStr(<<"a", "b", "c">>)

NameLong == JStr(<<"A", "b", "c", SP, "D", "e", "f">>)

NameLongSpaced == JStr(<<"a", "b", "c", SP, TAB, "d", "e", "f">>)

NameLongPadded == JStr(<<SP, "A", "B", "C", LF, "D", "E", "F", SP>>)

NameOther == JStr(<<"g", "h", "i", "j", "k", "l">>)

PriceValue(lit) == JObj((kValue :> JNum(lit)) @@ (kCurrency :> JStr(BRL)))

PriceMin(lit) == JObj((kMin :> JNum(lit)) @@ (kCurrency :> JStr(BRL)))

PriceMaxOnly == JObj((kMax :> JNum(<<"3">>)) @@ (kCurrency :> JStr(BRL)))

SourceNamed == JObj((kName :> JStr(<<"s">>)))

SourceWithUrl ==
    JObj((kName :> JStr(<<"s">>))
            @@ (kUrl :> JStr(<<"h", "t", "t", "p", ":", "/", "/", "a", ".", "b">>)))

\* The members a product may have beside its name, each with the values tried.
MemberChoices(k) ==
    CASE k = kDescription -> {Undefined, Text("x", DescriptionLongerThan + 1)}
      [] k = kPrice -> {Undefined, PriceValue(<<"1">>), PriceValue(<<"0">>)}
      [] k = kSource -> {Undefined, SourceWithUrl}
      [] k = kSpecs -> {Undefined, JArr(<<JStr(<<"x">>)>>)}

ChosenKeys == {kDescription, kPrice, kSource, kSpecs}

\* The product with the given name and the members of choice that are defined.
Product(name, choice) ==
    JObj((kName :> name)
            @@ [k \in {c \in DOMAIN choice : choice[c] # Undefined} |-> choice[k]])

Choices == {c \in [ChosenKeys -> UNION {MemberChoices(k) : k \in ChosenKeys}] :
               \A k \in ChosenKeys : c[k] \in MemberChoices(k)}

NoChoice == [k \in ChosenKeys |-> Undefined]

\* Products of every combination of the scoring conditions.
ConditionProducts == {Product(n, c) : n \in {NameShort, NameLong}, c \in Choices}

\* Products at the edges of the scoring conditions.
EdgeProducts ==
    {Product(NameShort, [NoChoice EXCEPT ![kDescription] = Text("x", DescriptionLongerThan)]),
     Product(NameShort, [NoChoice EXCEPT ![kDescription] = JStr(<<>>)]),
     Product(JStr(<<"a", "b", "c", "d", "e">>), NoChoice),
     Product(NameShort, [NoChoice EXCEPT ![kPrice] = PriceMin(<<"2">>)]),
     Product(NameShort, [NoChoice EXCEPT ![kPrice] = PriceMin(<<"0", ".", "0">>)]),
     Product(NameShort, [NoChoice EXCEPT ![kPrice] = PriceMaxOnly]),
     Product(NameShort, [NoChoice EXCEPT ![kSource] = SourceNamed]),
     Product(NameShort, [NoChoice EXCEPT ![kSpecs] = JArr(<<>>)])}

\* Products whose names collide once normalized, with equal and different scores.
CollidingProducts ==
    {Product(NameLong, NoChoice),
     Product(NameLongSpaced, [NoChoice EXCEPT ![kPrice] = PriceValue(<<"1">>)]),
     Product(NameLongPadded, [NoChoice EXCEPT ![kPrice] = PriceMin(<<"2">>)]),
     Product(NameLongPadded, [NoChoice EXCEPT ![kPrice] = PriceValue(<<"1">>),
                                              ![kSpecs] = JArr(<<JStr(<<"x">>)>>)]),
     Product(NameOther, NoChoice),
     Product(NameOther, [NoChoice EXCEPT ![kSource] = SourceWithUrl])}

NameThird == JStr(<<"m", "n", "o", SP, "p", "q", "r">>)

NameReview == JStr(<<"R", "e", "v", "i", "e", "w", SP, "a", "b", "c">>)

TutorialDescription == JStr(<<"u", "m", SP, "T", "U", "T", "O", "R", "I", "A", "L">>)

\* Largest number of records in a list of products for the whole pipeline.
MaxPipeline == 3

\* Products of four names with equal and different scores, and products that
\* filterNonProducts removes for their name or for their description.
PipelineProducts ==
    {Product(NameThird, NoChoice),
     Product(NameThird, [NoChoice EXCEPT ![kPrice] = PriceValue(<<"1">>)]),
     Product(NameOther, NoChoice),
     Product(NameLongSpaced, [NoChoice EXCEPT ![kPrice] = PriceValue(<<"1">>)]),
     Product(NameShort, NoChoice),
     Product(NameReview, NoChoice),
     Product(NameShort, [NoChoice EXCEPT ![kDescription] = TutorialDescription])}

ProductLists ==
    {<<p>> : p \in ConditionProducts \cup EdgeProducts}
        \cup {<<p, q>> : p \in ConditionProducts \cup EdgeProducts, q \in ConditionProducts}
        \cup UNION {[1..n -> CollidingProducts] : n \in 0..MaxProducts}
        \cup UNION {[1..n -> PipelineProducts] : n \in 0..MaxPipeline}

(***************************************************************************)
(* The filter as a state machine: a list of valid products is given, then  *)
(* one of the functions of filter.service.ts is applied to it.             *)
(***************************************************************************)
ParserIdle ==
    /\ content = <<>>
    /\ given = [kind |-> "other", base |-> <<>>]
    /\ op = "none"
    /\ ret = NoMatch

FilterInit ==
    /\ rawProducts \in {l \in ProductLists : \A i \in 1..Len(l) : ValidProduct(l[i])}
    /\ fop = "none"
    /\ fret = <<>>

\* calculateRelevanceScore on every product of the list, as enrichProducts calls it.
CalculateRelevanceScore ==
    /\ fop = "none"
    /\ fop' = "calculateRelevanceScore"
    /\ fret' = [i \in 1..Len(rawProducts) |-> calculateRelevanceScore(rawProducts[i])]
    /\ UNCHANGED <<rawProducts, parserVars, serviceVars>>

\* deduplicateProducts(rawProducts)
DeduplicateProducts ==
    /\ fop = "none"
    /\ fop' = "deduplicateProducts"
    /\ fret' = deduplicateProducts(rawProducts)
    /\ UNCHANGED <<rawProducts, parserVars, serviceVars>>

\* processProducts(rawProducts)
ProcessProducts ==
    /\ fop = "none"
    /\ fop' = "processProducts"
    /\ fret' = processProducts(rawProducts)
    /\ UNCHANGED <<rawProducts, parserVars, serviceVars>>

FilterNext == CalculateRelevanceScore \/ DeduplicateProducts \/ ProcessProducts

\* A list of products is given to the filter; the parser is not used.
FilterSpecInit == FilterInit /\ ParserIdle /\ ServiceIdle

FilterSpec == FilterSpecInit /\ [][FilterNext]_vars

(***************************************************************************)
(* The URL classifier as a state machine: a text and a list of valid       *)
(* products are given, then one of the functions is applied.               *)
(***************************************************************************)
\* Texts at the edges of the classifier: empty, not a URL, search pages by
\* path, by query, by fragment and by host, product pages by each kind of
\* signature and by the depth of the path, and pages that are neither.
UrlTexts ==
    {<<>>,
     <<"n", "o", "t", SP, "a", SP, "u", "r", "l">>,
     <<"h", "t", "t", "p", ":", "/", "/">>,
     <<"/", "b", "u", "s", "c", "a", "/", "x">>,
     <<"h", "t", "t", "p", "s", ":", "/", "/", "a", ".", "b", "/", "b", "u", "s", "c", "a",
       "/", "i", "p", "h", "o", "n", "e">>,
     <<"h", "t", "t", "p", "s", ":", "/", "/", "a", ".", "b", "/", "d", "p", "/", "B", "0",
       "B", "N", "7", "2", "D", "G", "3", "G">>,
     <<"H", "T", "T", "P", "S", ":", "/", "/", "A", ".", "B", "/", "S", "E", "A", "R", "C",
       "H">>,
     <<"h", "t", "t", "p", "s", ":", "/", "/", "a", ".", "b", "/", "p", "/", "1", "2", "3",
       "?", "q", "=", "x">>,
     <<"h", "t", "t", "p", "s", ":", "/", "/", "a", ".", "b", "/", "p", "/", "1", "2", "3">>,
     <<"h", "t", "t", "p", "s", ":", "/", "/", "a", ".", "b", "/", "x", "/", "y">>,
     <<"h", "t", "t", "p", "s", ":", "/", "/", "a", ".", "b", "/", "x">>,
     <<"h", "t", "t", "p", "s", ":", "/", "/", "a", ".", "b">>,
     <<"h", "t", "t", "p", "s", ":", "/", "/", "a", ".", "b", "/", "i", "t", "e", "m", "/",
       "1", "2", "#", "/", "s", "e", "a", "r", "c", "h">>,
     <<"h", "t", "t", "p", "s", ":", "/", "/", "a", ".", "b", "/", "M", "L", "B", "-", "1",
       "2", "3">>,
     <<"h", "t", "t", "p", "s", ":", "/", "/", "a", ".", "b", "/", "m", "l", "b", "1", "2",
       "3">>,
     <<"h", "t", "t", "p", "s", ":", "/", "/", "a", ".", "b", "/", "x", "1", "2", "3", "4",
       "5", "6">>,
     <<"h", "t", "t", "p", "s", ":", "/", "/", "1", "2", "3", "4", "5", "6", ".", "b", "/",
       "x">>,
     <<"h", "t", "t", "p", "s", ":", "/", "/", "a", ".", "b", "/", "s", "?", "k", "=", "1">>,
     <<"h", "t", "t", "p", "s", ":", "/", "/", "a", ".", "b", "/", "p", "r", "o", "d", "u",
       "c", "t", "s", "?", "x", "=", "1">>,
     <<"h", "t", "t", "p", "s", ":", "/", "/", "a", ".", "b", "/", "?", "s", "=", "1">>,
     <<"h", "t", "t", "p", "s", ":", "/", "/", "a", ".", "b", "/", "x", "?", "a", "s", "=",
       "1">>,
     <<"h", "t", "t", "p", "s", ":", "/", "/", "a", ".", "b", "/", "x", "?", "a", "=", "1",
       "&", "q", "=", "2">>,
     <<"m", "a", "i", "l", "t", "o", ":", "x", "?", "q", "=", "1">>,
     <<SP, "h", "t", "t", "p", "s", ":", "/", "/", "a", ".", "b", "/", "x", "/", "y", SP>>,
     <<"h", "t", "t", "p", "s", ":", "/", "/", "a", ".", "b", "/", "x", "/", "y", "?">>,
     <<"h", "t", "t", "p", "s", ":", "/", "/", "a", ".", "b", "/", "p", "/", "x">>,
     <<"h", "t", "t", "p", "s", ":", "/", "/", "s", "e", "a", "r", "c", "h", ".", "b", "/",
       "x", "/", "y">>,
     <<"h", "t", "t", "p", "s", ":", "/", "/", "a", ".", "b", "/", "b", "u", "s", "c", "a">>,
     <<"h", "t", "t", "p", "s", ":", "/", "/", "a", ".", "b", "/", "d", "p", "/">>}

\* Largest number of records in a list given to filterProductsByUrl.
MaxListed == 3

SourceAt(u) == JObj((kName :> JStr(<<"s">>)) @@ (kUrl :> JStr(u)))

\* Products without a source, with a source without URL, and with the URL of
\* a product page, of a search page and of a page that is neither.
UrlProducts ==
    {Product(NameShort, NoChoice),
     Product(NameLong, [NoChoice EXCEPT ![kSource] = SourceNamed])}
        \cup {Product(NameOther, [NoChoice EXCEPT ![kSource] = SourceAt(u)]) :
                 u \in {<<"h", "t", "t", "p", "s", ":", "/", "/", "a", ".", "b", "/", "p", "/", "1", "2", "3">>,
                        <<"h", "t", "t", "p", "s", ":", "/", "/", "a", ".", "b", "/", "b", "u", "s", "c", "a", "/", "i", "p", "h", "o", "n", "e">>,
                        <<"h", "t", "t", "p", "s", ":", "/", "/", "a", ".", "b", "/", "p", "/", "1", "2", "3", "?", "q", "=", "x">>,
                        <<"h", "t", "t", "p", "s", ":", "/", "/", "a", ".", "b", "/", "x">>}}

UrlProductLists ==
    {l \in UNION {[1..n -> UrlProducts] : n \in 0..MaxListed} :
        \A i \in 1..Len(l) : ValidProduct(l[i])}

\* A text with the empty list, or a list with the empty text.
UrlInit ==
    /\ \/ url \in UrlTexts /\ urlProducts = <<>>
       \/ url = <<>> /\ urlProducts \in UrlProductLists
    /\ uop = "none"
    /\ uret = <<>>

\* isSearchUrl(url)
IsSearchUrl ==
    /\ uop = "none"
    /\ uop' = "isSearchUrl"
    /\ uret' = isSearchUrl(url)
    /\ UNCHANGED <<url, urlProducts, parserVars, filterVars, imageVars, searchVars,
                 extractVars>>

\* isProductUrl(url)
IsProductUrl ==
    /\ uop = "none"
    /\ uop' = "isProductUrl"
    /\ uret' = isProductUrl(url)
    /\ UNCHANGED <<url, urlProducts, parserVars, filterVars, imageVars, searchVars,
                 extractVars>>

\* filterProductsByUrl(urlProducts)
FilterProductsByUrl ==
    /\ uop = "none"
    /\ uop' = "filterProductsByUrl"
    /\ uret' = filterProductsByUrl(urlProducts)
    /\ UNCHANGED <<url, urlProducts, parserVars, filterVars, imageVars, searchVars,
                 extractVars>>

UrlNext == IsSearchUrl \/ IsProductUrl \/ FilterProductsByUrl

\* A text and a list are given to the URL classifier; nothing else is used.
UrlSpecInit == UrlInit /\ ParserIdle /\ FilterIdle /\ ImageIdle /\ SearchIdle /\ ExtractIdle

UrlSpec == UrlSpecInit /\ [][UrlNext]_vars

(***************************************************************************)
(* The image resolver as a state machine: calls of resolveProductImages    *)
(* run concurrently; a call runs alone up to its next await, and the pages *)
(* it awaits arrive, or fail to, in any order.                             *)
(***************************************************************************)
\* Largest number of calls of resolveProductImages in one behaviour.
MaxCalls == 2

PageUrlOne == <<"h", "t", "t", "p", "s", ":", "/", "/", "a", ".", "b", "/", "p", "/", "1">>

PageUrlTwo == <<"h", "t", "t", "p", "s", ":", "/", "/", "a", ".", "b", "/", "p", "/", "2">>

ImageAbsolute == <<"h", "t", "t", "p", "s", ":", "/", "/", "c", ".", "d", "/", "i", ".", "p", "n", "g">>

ImageRelative == <<"/", "i", ".", "p", "n", "g">>

ImageGiven == <<"h", "t", "t", "p", "s", ":", "/", "/", "c", ".", "d", "/", "g", ".", "p", "n", "g">>

\* Products without source and image, with an image, and without image at a
\* source URL.
Bare(name) == Product(name, NoChoice)

Pictured(name) ==
    JObj((kName :> name) @@ (kSource :> SourceAt(PageUrlOne)) @@ (kImageUrl :> JStr(ImageGiven)))

AtUrl(name, u) == Product(name, [NoChoice EXCEPT ![kSource] = SourceAt(u)])

\* The lists passed to resolveProductImages: short ones with one URL, with one
\* URL twice and with two URLs, and lists longer than maxToResolve.
ImageLists ==
    {<<>>,
     <<AtUrl(NameShort, PageUrlOne)>>,
     <<AtUrl(NameShort, PageUrlOne), AtUrl(NameLong, PageUrlOne)>>,
     <<Bare(NameShort), Pictured(NameLong), AtUrl(NameOther, PageUrlTwo)>>,
     <<Pictured(NameShort), Bare(NameLong), Bare(NameOther), AtUrl(NameThird, PageUrlOne),
       AtUrl(NameLongSpaced, PageUrlTwo), AtUrl(NameLongPadded, PageUrlOne),
       AtUrl(NameReview, PageUrlTwo)>>,
     <<Bare(NameShort), Bare(NameLong), Bare(NameOther), Bare(NameThird), Bare(NameLongSpaced),
       AtUrl(NameLongPadded, PageUrlTwo)>>}

\* The arguments of a call: each list without existingImages, and one list
\* with an image that a page may bring as well, and with one image twice.
ImageArguments ==
    {[list |-> l, existingImages |-> Undefined] : l \in ImageLists}
        \cup {[list |-> <<AtUrl(NameShort, PageUrlOne)>>,
               existingImages |-> JArr(<<JStr(ImageAbsolute)>>)]}
        \cup {[list |-> <<AtUrl(NameShort, PageUrlOne)>>,
               existingImages |-> JArr(<<JStr(ImageGiven), JStr(ImageGiven)>>)]}

\* The pages a fetch may bring: without image, with an absolute og:image, with
\* a relative twitter:image.
Pages ==
    {Html(<<>>, <<>>),
     Html(<<Meta("property", OgImage, ImageAbsolute, FALSE)>>, <<>>),
     Html(<<Meta("name", TwitterImage, ImageRelative, FALSE)>>, <<>>)}

ImageInit ==
    /\ imageCache = EmptyMap
    /\ calls = <<>>
    /\ fetchLog = <<>>

\* resolveProductImages(a.list, a.existingImages) is called and runs up to its
\* first await or its return.
ResolveProductImages ==
    /\ Len(calls) < MaxCalls
    /\ \E a \in ImageArguments :
          calls' = Append(calls, RunFrom(CallState(a.list, a.list, ImagesGiven(a.existingImages),
                                                  1, FALSE, FALSE),
                                        imageCache))
    /\ fetchLog' = LogAfter(fetchLog, Len(calls'), calls'[Len(calls')])
    /\ UNCHANGED <<imageCache, parserVars, filterVars, urlVars, searchVars,
                     extractVars>>

\* Lines 241-244: the page call c awaits arrives; the call runs on.
FetchResolves ==
    \E c \in 1..Len(calls), html \in Pages :
        /\ calls[c].awaiting
        /\ imageCache' = CacheSet(imageCache, AwaitedUrl(calls[c]),
                                  extractImageFromHtml(html, AwaitedUrl(calls[c])))
        /\ calls' = [calls EXCEPT ![c] =
                        RunFrom(Finished(@, OrUndefined(imageCache'[AwaitedUrl(@)])),
                                imageCache')]
        /\ fetchLog' = LogAfter(fetchLog, c, calls'[c])
        /\ UNCHANGED <<parserVars, filterVars, urlVars, searchVars,
                     extractVars>>

\* Lines 241-242 without the try around them: the exception leaves the call,
\* which ends where it is and writes nothing.
FetchRejectsAndLeaves ==
    \E c \in 1..Len(calls) :
        /\ calls[c].awaiting
        /\ calls' = [calls EXCEPT ![c] = [@ EXCEPT !.awaiting = FALSE, !.returned = TRUE]]
        /\ UNCHANGED <<imageCache, fetchLog, parserVars, filterVars, urlVars, searchVars,
                     extractVars>>

\* Lines 245-248: the fetch call c awaits fails; the call runs on.
FetchRejects ==
    \E c \in 1..Len(calls) :
        /\ calls[c].awaiting
        /\ imageCache' = CacheSet(imageCache, AwaitedUrl(calls[c]), JNull)
        /\ calls' = [calls EXCEPT ![c] = RunFrom(Finished(@, Undefined), imageCache')]
        /\ fetchLog' = LogAfter(fetchLog, c, calls'[c])
        /\ UNCHANGED <<parserVars, filterVars, urlVars, searchVars,
                     extractVars>>

ImageNext == ResolveProductImages \/ FetchResolves \/ FetchRejects

\* The process starts with an empty cache; nothing else is used.
ImageSpecInit == ImageInit /\ ParserIdle /\ FilterIdle /\ UrlIdle /\ SearchIdle /\ ExtractIdle

ImageSpec == ImageSpecInit /\ [][ImageNext]_vars

(***************************************************************************)
(* The extraction from a page as a state machine: a page is given, then    *)
(* extractImageFromHtml is applied to it with the URL of the page.         *)
(***************************************************************************)
\* Largest number of meta tags, and of JSON-LD blocks, of a page.
MaxTags == 2

ImageOffered == <<"/", "o", ".", "p", "n", "g">>

ImageListed == <<"/", "u", ".", "p", "n", "g">>

\* Meta tags: og:image with the content attribute last and first, og:image
\* with an empty content, and twitter:image.
MetaTags ==
    {Meta("property", OgImage, ImageAbsolute, FALSE),
     Meta("property", OgImage, ImageGiven, TRUE),
     Meta("property", OgImage, <<>>, FALSE),
     Meta("name", TwitterImage, ImageRelative, FALSE)}

\* JSON-LD blocks: an image as a text; offers with an image; an array whose
\* second node lists an image with its url; an empty image; not JSON.
ScriptTexts ==
    {<<LF>> \o Obj(<<KV(kImage, Q(ImageRelative))>>) \o <<LF>>,
     Obj(<<KV(kOffers, Obj(<<KV(kImage, Arr(<<Q(ImageOffered)>>))>>))>>),
     Arr(<<Obj(<<KV(kName, <<"1">>)>>),
           Obj(<<KV(kImage, Arr(<<Obj(<<KV(kUrl, Q(ImageListed))>>)>>))>>)>>),
     Obj(<<KV(kImage, Q(<<>>))>>),
     <<"{", "n", "o">>}

HtmlPages ==
    {Html(m, t) : m \in UNION {[1..n -> MetaTags] : n \in 0..MaxTags},
                  t \in UNION {[1..n -> ScriptTexts] : n \in 0..MaxTags}}

ExtractInit ==
    /\ document \in HtmlPages
    /\ found = <<>>

\* extractImageFromHtml(document, PageUrlOne)
ExtractImageFromHtml ==
    /\ found = <<>>
    /\ found' = extractImageFromHtml(document, PageUrlOne)
    /\ UNCHANGED <<document, parserVars, filterVars, urlVars, imageVars, searchVars>>

ExtractNext == ExtractImageFromHtml

\* A page is given; nothing else is used.
ExtractSpecInit ==
    ExtractInit /\ ParserIdle /\ FilterIdle /\ UrlIdle /\ ImageIdle /\ SearchIdle

ExtractSpec == ExtractSpecInit /\ [][ExtractNext]_vars

(***************************************************************************)
(* The search service as a state machine: a request arrives and is served *)
(* by the provider it selects, whose answer is what the upstream gives,    *)
(* and the route replies with the response. A behaviour has one request:   *)
(* requests share only the image cache, and ImageSpec has the calls of     *)
(* several requests running together.                                      *)
(***************************************************************************)
\* Largest number of results the shopping provider returns.
MaxShopping == 2

SearchPageUrl == <<"h", "t", "t", "p", "s", ":", "/", "/", "a", ".", "b", "/", "s", "e", "a",
    "r", "c", "h", "?", "q", "=", "x">>

ImageBroken == <<"h", "t", "t", "p", ":", "/", "/">>

\* Results of the shopping provider: a complete one, one with a short title
\* and neither link nor rating, one that links to a search page, and one whose
\* title is that of the first in capitals.
ItemFull ==
    ObjOf(<<<<kTitle, JStr(<<"S", "o", "n", "y", SP, "a", "b", "c">>)>>,
            <<kLink, JStr(PageUrlOne)>>,
            <<kSource, JStr(<<"s">>)>>,
            <<kPrice, JStr(<<"R", "$", SP, "9">>)>>,
            <<kExtractedPrice, JNum(<<"9">>)>>,
            <<kRating, JNum(<<"4">>)>>,
            <<kThumbnail, JStr(ImageAbsolute)>>,
            <<kExtensions, JArr(<<JStr(<<"x">>), JStr(<<"y">>)>>)>>>>)

ItemShort == ObjOf(<<<<kTitle, JStr(<<"T", "V">>)>>, <<kSource, JStr(<<"s">>)>>>>)

ItemSearch ==
    ObjOf(<<<<kTitle, JStr(<<"R", "e", "v", "i", "e", "w", SP, "d", "e", "f">>)>>,
            <<kProductLink, JStr(SearchPageUrl)>>,
            <<kSource, JStr(<<"s">>)>>>>)

ItemAgain ==
    ObjOf(<<<<kTitle, JStr(<<"S", "O", "N", "Y", SP, "A", "B", "C">>)>>,
            <<kLink, JStr(PageUrlTwo)>>,
            <<kSource, JStr(<<"s">>)>>,
            <<kExtractedPrice, JNum(<<"9">>)>>,
            <<kExtractedOldPrice, JNum(<<"1", "2">>)>>,
            <<kDelivery, JStr(<<"o", "k">>)>>>>)

\* A result that has no title.
ItemUntitled == ObjOf(<<<<kSource, JStr(<<"s">>)>>>>)

ShoppingItems == {ItemFull, ItemShort, ItemSearch, ItemAgain, ItemUntitled}

ShoppingResults == UNION {[1..n -> ShoppingItems] : n \in 0..MaxShopping}

\* The member "source" of a record of the model's answer.
SourceText(u) == KV(kSource, Obj(<<KV(kName, Q(<<"s">>)), KV(kUrl, Q(u))>>))

\* A record of the model's answer.
RecordText(name, members) == Obj(<<KV(kName, Q(name))>> \o members)

\* The model's answer with the records given.
AnswerText(records) == Obj(<<KV(kProducts, Arr(records))>>)

\* The answer {"products":[{"name":"Fone X","price":{"value":100}},
\* {"name":"fone x","price":{"value":90}}],"search_summary":"ok"}.
FoneAnswer ==
    Obj(<<KV(kProducts,
             Arr(<<RecordText(<<"F", "o", "n", "e", SP, "X">>,
                              <<KV(kPrice, Obj(<<KV(kValue, <<"1", "0", "0">>)>>))>>),
                   RecordText(<<"f", "o", "n", "e", SP, "x">>,
                              <<KV(kPrice, Obj(<<KV(kValue, <<"9", "0">>)>>))>>)>>)),
          KV(kSearchSummary, Q(<<"o", "k">>))>>)

\* Answers of the model: a product at a page and one without source; a
\* product at a search page and one without source; a product and an invalid record; the same name
\* twice, the second with a price; a review and a product; the answer about "Fone X"; no JSON at all.
LlmContents ==
    {AnswerText(<<RecordText(<<"a", "b", "c">>, <<SourceText(PageUrlOne)>>),
                  RecordText(<<"d", "e", "f">>, <<>>)>>),
     AnswerText(<<RecordText(<<"a", "b", "c">>, <<SourceText(SearchPageUrl)>>),
                  RecordText(<<"d", "e", "f">>, <<>>)>>),
     AnswerText(<<RecordText(<<"a", "b">>, <<>>),
                  RecordText(<<"d", "e", "f">>, <<SourceText(PageUrlTwo)>>)>>),
     AnswerText(<<RecordText(<<"a", "b", "c">>, <<>>),
                  RecordText(<<"A", "B", "C">>, <<KV(kPrice, Obj(<<KV(kValue,
    <<"1">>)>>))>>)>>),
     AnswerText(<<RecordText(<<"r", "e", "v", "i", "e", "w">>, <<>>),
                  RecordText(<<"d", "e", "f">>, <<>>)>>),
     FoneAnswer,
     <<"n", "o">>}

\* What fetchHtml brings during a request: it throws, or a page without
\* image, with an absolute image, or with an image that is "http://".
FetchOutcomes ==
    {Undefined,
     Html(<<>>, <<>>),
     Html(<<Meta("property", OgImage, ImageAbsolute, FALSE)>>, <<>>),
     Html(<<Meta("property", OgImage, ImageBroken, FALSE)>>, <<>>)}

\* The images the model's answer brings.
LlmImages == {Undefined, JArr(<<JStr(ImageAbsolute)>>)}

MaxResultsGiven == {1, 10}

SearchRequests == [provider : {"gemini", "serpapi"}, max_results : MaxResultsGiven]

\* The messages of the errors the upstream calls throw.
ErrorTexts == {<<"x">>, <<"P", "e", "r", "p", "l", "e", "x", "i", "t", "y">>}

\* What the upstream gave to a request: failed with the message, or the
\* results of the shopping provider, or the content and images of the model
\* and the outcome of the page fetches.
Upstream(serpapiKey, failed, message, results, text, images, page) ==
    [serpapiKey |-> serpapiKey, failed |-> failed, message |-> message, results |-> results,
     content |-> text, images |-> images, page |-> page]

\* The process starts with SERPAPI_API_KEY configured or not, and no request.
SearchInit ==
    /\ request = <<>>
    /\ upstream \in {Upstream(k, FALSE, <<>>, <<>>, <<>>, Undefined, Undefined) : k \in BOOLEAN}
    /\ response = <<>>
    /\ imageCache = EmptyMap
    /\ calls = <<>>
    /\ fetchLog = <<>>

\* part_000, lines 147 and 191: the start of the message of the error.
SerpApiError == <<"S", "e", "r", "p", "A", "p", "i", SP, "e", "r", "r", "o", "r", ":", SP>>

\* The start of the message of the error that searchGemini throws.
GeminiError ==
    <<"G", "e", "m", "i", "n", "i", SP, "A", "P", "I", SP, "e", "r", "r", "o", "r", ":", SP>>

\* part_000, lines 146-148 and 181-194: searchSerpApi throws, the route
\* answers with the error.
SerpApiFails ==
    \E req \in SearchRequests, m \in ErrorTexts :
        /\ request = <<>>
        /\ ProviderOf(req, upstream.serpapiKey) = "serpapi"
        /\ request' = req
        /\ upstream' = Upstream(upstream.serpapiKey, TRUE,
                                SerpApiError \o m,
                                <<>>, <<>>, Undefined, Undefined)
        /\ response' = ErrorResponse(upstream'.message)
        /\ UNCHANGED <<imageCache, calls, fetchLog, parserVars, filterVars, urlVars,
                     extractVars>>

\* Lines 49-95: a request served by the shopping provider.
SearchWithSerpApi ==
    \E req \in SearchRequests, rawResults \in ShoppingResults :
        /\ request = <<>>
        /\ ProviderOf(req, upstream.serpapiKey) = "serpapi"
        /\ request' = req
        /\ upstream' = Upstream(upstream.serpapiKey, FALSE, <<>>, rawResults, <<>>,
                                Undefined, Undefined)
        /\ response' = SerpApiResponse(req, rawResults)
        /\ UNCHANGED <<imageCache, calls, fetchLog, parserVars, filterVars, urlVars,
                     extractVars>>

\* Lines 118-122: searchGemini throws, the route answers with the error.
GeminiFails ==
    \E req \in SearchRequests, m \in ErrorTexts :
        /\ request = <<>>
        /\ ProviderOf(req, upstream.serpapiKey) = "gemini"
        /\ request' = req
        /\ upstream' = Upstream(upstream.serpapiKey, TRUE,
                                GeminiError \o m,
                                <<>>, <<>>, Undefined, Undefined)
        /\ response' = ErrorResponse(upstream'.message)
        /\ UNCHANGED <<imageCache, calls, fetchLog, parserVars, filterVars, urlVars,
                     extractVars>>

\* Lines 100-196: a request served by the model.
SearchWithGemini ==
    \E text \in LlmContents :
        \E parseResult \in {parseProducts(text)} :
            \E req \in SearchRequests, images \in LlmImages, page \in FetchOutcomes :
                /\ request = <<>>
                /\ ProviderOf(req, upstream.serpapiKey) = "gemini"
                /\ request' = req
                /\ upstream' = Upstream(upstream.serpapiKey, FALSE, <<>>, <<>>, text,
                                        images, page)
                /\ \E resolved \in {ResolveAlone(Normalized(parseResult.products,
                                                             req.max_results),
                                                  images, imageCache, page)} :
                      /\ response' = GeminiResponseOf(parseResult, images, resolved)
                      /\ imageCache' = resolved.cache
                /\ UNCHANGED <<calls, fetchLog, parserVars, filterVars, urlVars,
                     extractVars>>

SearchNext == SerpApiFails \/ SearchWithSerpApi \/ GeminiFails \/ SearchWithGemini

SearchSpecInit == SearchInit /\ ParserIdle /\ FilterIdle /\ UrlIdle /\ ExtractIdle

SearchSpec == SearchSpecInit /\ [][SearchNext]_vars

(***************************************************************************)
(* Properties of parser.ts, checked under ParserSpec                       *)
(***************************************************************************)
\* Whether parseProducts recovers a document from text c: JSON is extracted
\* and one of the parse attempts succeeds.
RecoversDocument(c) ==
    extractJson(c).found /\ extractJson(c).text # <<>> /\ RawData(extractJson(c).text).ok

\* The document recovered from text c.
RecoveredDocument(c) == RawData(extractJson(c).text).v

\* Whether document d has an array under products at its top level.
HasProductsArray(d) == d.t = "obj" /\ kProducts \in DOMAIN d.m /\ d.m[kProducts].t = "arr"

\* The records of document d.
Records(d) == d.m[kProducts].items

\* The failures of parseProducts on text c, one diagnostic for each.
Failures(c) ==
    IF ~extractJson(c).found \/ extractJson(c).text = <<>> THEN {Diag("extract", 0)}
    ELSE IF ~RecoversDocument(c) THEN {Diag("json", 0)}
    ELSE IF ~ValidRawResponse(RecoveredDocument(c)) THEN {Diag("structure", 0)}
    ELSE {Diag("product", i) : i \in {j \in 1..Len(Records(RecoveredDocument(c))) :
                                        ~ValidProduct(Records(RecoveredDocument(c))[j])}}

\* C1: parseProducts never throws; every failure (no JSON extracted, JSON that
\* does not parse after repair, wrong top-level shape, invalid records) is an
\* entry of parseErrors, and when no document is recovered the products list
\* is empty and parseErrors is not.
C1_FailuresAreReturned ==
    op = "parseProducts" =>
        /\ ~ret.threw
        /\ Range(ret.parseErrors) = Failures(content)
        /\ ~RecoversDocument(content) => ret.products = <<>> /\ ret.parseErrors # <<>>

\* C1 witness: a text from which no document is recovered even after repair
\* has been parsed, and the 'Invalid JSON' diagnostic came back.
C1_Witness ==
    /\ op = "parseProducts"
    /\ extractJson(content).found
    /\ ~RecoversDocument(content)
    /\ ret.parseErrors = <<Diag("json", 0)>>

C3_RejectedOnlyWithoutProducts ==
    (op = "parseProducts" /\ RecoversDocument(content)
        /\ ret.parseErrors = <<Diag("structure", 0)>>) =>
        ~HasProductsArray(RecoveredDocument(content))

\* C4: for a well-formed document J with a comma put before a closing } and
\* wrapped in a fenced block, extraction and repair (extractJson, then the
\* parse attempts of parseProducts) yield a document equal to J.
C4_FencedTrailingCommaRecovered ==
    (op = "extractJson" /\ given.kind = "fencedTrailingComma") =>
        /\ ret.found
        /\ RawData(ret.text) = [ok |-> TRUE, v |-> JsonParse(given.base).v]

\* C5: for a text that is well-formed JSON already, extractJson returns the
\* text as it is; no step of the repair chain is applied.
C5_WellFormedUnchanged ==
    (op = "extractJson" /\ JsonParse(content).ok) => ret = Match(content)

\* C5 witness: extractJson was applied to a well-formed text that the repair
\* chain would have changed.
C5_Witness ==
    /\ op = "extractJson"
    /\ JsonParse(content).ok
    /\ fixCommonJsonIssues(content) # content
    /\ ret.found

\* C6: for a document that is well-formed but for one comma missing between
\* two adjacent objects, the repair chain inserts exactly one comma and the
\* repaired text parses.
C6_MissingCommaRepaired ==
    (op = "fixCommonJsonIssues" /\ given.kind = "missingComma") =>
        /\ CountIn(ret.text, {","}) = CountIn(content, {","}) + 1
        /\ JsonParse(ret.text).ok

\* C7: for a truncated document with more opening than closing brackets and
\* braces, the repair chain appends openBrackets - closeBrackets closing
\* brackets, then openBraces - closeBraces closing braces, the counts being
\* those of the text the closers are appended to.
C7_ClosersBalanceTheText ==
    (op = "fixCommonJsonIssues" /\ given.kind = "truncated"
        /\ OpenBrackets(content) >= CloseBrackets(content)
        /\ OpenBraces(content) >= CloseBraces(content)
        /\ OpenBrackets(content) + OpenBraces(content)
              > CloseBrackets(content) + CloseBraces(content)) =>
        ret.text
            = BeforeClosers(BeforeBalance(content))
                \o Repeat("]", OpenBrackets(BeforeClosers(BeforeBalance(content)))
                                  - CloseBrackets(BeforeClosers(BeforeBalance(content))))
                \o Repeat("}", OpenBraces(BeforeClosers(BeforeBalance(content)))
                                  - CloseBraces(BeforeClosers(BeforeBalance(content))))

\* C8: the repair chain is idempotent: applied to its own result it changes
\* nothing.
C8_RepairIdempotent ==
    op = "fixCommonJsonIssues" => fixCommonJsonIssues(ret.text) = ret.text

\* Whether s holds a comma that only whitespace separates from a closing }
\* or ] after it.
HoldsTrailingComma(s) ==
    \E i \in 1..Len(s), j \in 1..Len(s) :
        /\ i < j
        /\ s[i] = ","
        /\ s[j] \in {"}", "]"}
        /\ \A k \in (i + 1)..(j - 1) : s[k] \in ReWs

\* The text after n passes of the loop of lines 76-80 over s.
RECURSIVE PassesRun(_, _)
PassesRun(s, n) == IF n = 0 THEN s ELSE PassesRun(TrailingCommaPass(s), n - 1)

\* Whether the loop over s stops: some pass, not later than one pass per comma
\* of s and one more, leaves the length as it was.
LoopStops(s) ==
    \E n \in 0..CountIn(s, {","}) : Len(PassesRun(s, n + 1)) = Len(PassesRun(s, n))

\* C29: the loop that removes trailing commas stops for every text, and the
\* text it leaves holds no comma that only whitespace separates from a
\* closing } or ]: a further pass of the removal changes nothing.
C29_TrailingCommaLoopReachesFixedPoint ==
    op = "fixCommonJsonIssues" =>
        /\ LoopStops(BeforeCommaLoop(content))
        /\ ~HoldsTrailingComma(RemoveTrailingCommas(BeforeCommaLoop(content)))
        /\ TrailingCommaPass(RemoveTrailingCommas(BeforeCommaLoop(content)))
              = RemoveTrailingCommas(BeforeCommaLoop(content))

\* C29 witness: the repair chain was applied to a text whose loop removes a
\* comma in its first pass and another in its second, and a trailing comma
\* uncovered by the first pass is gone.
C29_Witness ==
    /\ op = "fixCommonJsonIssues"
    /\ Len(PassesRun(BeforeCommaLoop(content), 1)) < Len(BeforeCommaLoop(content))
    /\ Len(PassesRun(BeforeCommaLoop(content), 2)) < Len(PassesRun(BeforeCommaLoop(content), 1))
    /\ HoldsTrailingComma(PassesRun(BeforeCommaLoop(content), 1))
    /\ ~HoldsTrailingComma(RemoveTrailingCommas(BeforeCommaLoop(content)))

\* Whether text c does not parse as it is and has a fenced block whose
\* interior, trimmed and repaired, does not parse either.
FenceFails(c) ==
    /\ ~JsonParse(c).ok
    /\ CodeBlockMatch(c).found
    /\ ~JsonParse(fixCommonJsonIssues(Trim(CodeBlockMatch(c).text))).ok

\* C26: the steps of the extraction are tried in order, each only when the
\* one before gave no document that parses: for a text with a fenced block
\* whose interior does not parse after the repair, extractJson goes on to the
\* span from the first { to the last } of the text and returns that span
\* repaired, not the interior of the fence.
C26_GreedySpanAfterFailedFence ==
    op = "extractJson" /\ FenceFails(content) /\ JsonObjectMatch(content).found
        => ret = FromJsonMatch(JsonObjectMatch(content))

\* Whether no structural parse gives a document for the extracted text e:
\* nothing was extracted, or what was extracted parses neither as it is nor
\* repaired again.
NoDocumentFrom(e) ==
    \/ ~e.found
    \/ e.text = <<>>
    \/ ~JsonParse(e.text).ok /\ ~JsonParse(fixCommonJsonIssues(e.text)).ok

\* The span of the array that follows the "products" key matched by m, up to
\* the ] that matches its opening [.
ProductsSpan(m) == CutAt(m.text, EndIndex(m.text))

\* Whether text c holds a "products" key followed by an array that is closed
\* and parses.
HoldsProductsArray(c) ==
    ProductsMatch(c).found /\ JsonParse(ProductsSpan(ProductsMatch(c))).ok

\* C27: when every structural parse of the text fails and the text holds a
\* "products" key followed by an array, parseProducts gives the records of
\* that array, cut at the ] that matches its opening [, validated one by one,
\* with an empty summary; so for every such text, with or without enclosing
\* braces or a fence.
C27_ProductsArrayFallback ==
    op = "parseProducts" /\ ~JsonParse(content).ok /\ NoDocumentFrom(extractJson(content))
                         /\ HoldsProductsArray(content)
        => ret = ValidateDocument(
                    WrapProducts(JsonParse(ProductsSpan(ProductsMatch(content)))).v)

(***************************************************************************)
(* Properties of filter.service.ts, checked under FilterSpec               *)
(***************************************************************************)
\* The positions of the records of list l whose normalized name is that of l[i].
Group(l, i) == {j \in 1..Len(l) : normalizedName(l[j]) = normalizedName(l[i])}

\* The first position of its group that holds a record of the highest score.
FirstBest(l, i) ==
    CHOOSE j \in Group(l, i) :
        /\ \A h \in Group(l, i) : calculateRelevanceScore(l[h]) <= calculateRelevanceScore(l[j])
        /\ \A h \in Group(l, i) :
              calculateRelevanceScore(l[h]) = calculateRelevanceScore(l[j]) => j <= h

Conditions(p) ==
    {c \in {"name", "description", "price", "source", "specs"} :
        CASE c = "name" -> Len(p.m[kName].s) > 5
          [] c = "description" -> kDescription \in DOMAIN p.m /\ Len(p.m[kDescription].s) > 20
          [] c = "price" -> /\ kPrice \in DOMAIN p.m
                            /\ {kValue, kMin} \cap DOMAIN p.m[kPrice].m # {}
          [] c = "source" -> kSource \in DOMAIN p.m /\ kUrl \in DOMAIN p.m[kSource].m
          [] c = "specs" -> kSpecs \in DOMAIN p.m /\ Len(p.m[kSpecs].items) >= 1}

\* C10: the score lies in [0,1], and a product of which exactly one more
\* scoring condition holds than of another, the others being the same, has a
\* strictly higher score.
C10_ScoreBoundedAndIncreasing ==
    fop = "calculateRelevanceScore" =>
        /\ \A i \in 1..Len(fret) : fret[i] >= 0 /\ fret[i] <= 1000
        /\ \A i, j \in 1..Len(rawProducts) :
              (/\ Conditions(rawProducts[i]) \subseteq Conditions(rawProducts[j])
               /\ Cardinality(Conditions(rawProducts[j]) \ Conditions(rawProducts[i])) = 1)
                  => fret[i] < fret[j]

\* Whether the price of product p holds a number under value or under min.
HasNumericPrice(p) ==
    /\ kPrice \in DOMAIN p.m
    /\ \E k \in {kValue, kMin} : k \in DOMAIN p.m[kPrice].m /\ p.m[kPrice].m[k].t = "num"

\* Product p with its price taken away.
WithoutPrice(p) == JObj([k \in DOMAIN p.m \ {kPrice} |-> p.m[k]])

\* C11: calculateRelevanceScore adds the price bonus for every valid product
\* whose price.value or price.min is present as a number, zero included, and
\* only for those: the score differs from the score of the same product
\* without its price exactly when such a number is present.
C11_PriceBonusIffPricePresent ==
    fop = "calculateRelevanceScore" =>
        \A i \in 1..Len(rawProducts) :
            HasNumericPrice(rawProducts[i])
                <=> fret[i] # calculateRelevanceScore(WithoutPrice(rawProducts[i]))

\* The list processProducts sorts: the products left by filterNonProducts and
\* deduplicateProducts, enriched.
BeforeSort(l) == enrichProducts(deduplicateProducts(filterNonProducts(l)))

\* The position of product p in list l.
PositionIn(l, p) == CHOOSE i \in 1..Len(l) : l[i] = p

\* The relevance_score of product p, in thousandths.
Relevance(p) == ScoreOf(p.m[kRelevanceScore])

\* C12: the list processProducts returns holds the deduplicated products in
\* the order of relevance_score descending, and products of equal score keep
\* the relative order they have after deduplication.
C12_SortedDescendingStable ==
    fop = "processProducts" =>
        /\ Len(fret) = Len(BeforeSort(rawProducts))
        /\ Range(fret) = Range(BeforeSort(rawProducts))
        /\ \A a, b \in 1..Len(fret) :
              a < b =>
                 /\ Relevance(fret[a]) >= Relevance(fret[b])
                 /\ Relevance(fret[a]) = Relevance(fret[b]) =>
                       PositionIn(BeforeSort(rawProducts), fret[a])
                           < PositionIn(BeforeSort(rawProducts), fret[b])

\* C12 witness: three products of different names were processed; the first
\* two share a score, the third has a higher score and was moved to the front,
\* and the two others follow in their order.
C12_Witness ==
    /\ fop = "processProducts"
    /\ Len(fret) = 3
    /\ Len(BeforeSort(rawProducts)) = 3
    /\ Relevance(fret[1]) > Relevance(fret[2])
    /\ Relevance(fret[2]) = Relevance(fret[3])
    /\ fret = <<BeforeSort(rawProducts)[3], BeforeSort(rawProducts)[1], BeforeSort(rawProducts)[2]>>

(***************************************************************************)
(* Properties of the URL classifier, checked under UrlSpec                 *)
(***************************************************************************)
\* Whether text u is empty or does not parse as a URL.
Unparseable(u) == u = <<>> \/ ~NewUrl(u).ok

\* C15: for no text are isSearchUrl and isProductUrl both true, and for a text
\* that is empty or does not parse as a URL isSearchUrl is true and
\* isProductUrl is false.
C15_SearchAndProductExclusive ==
    /\ (uop = "isProductUrl" /\ uret) => ~isSearchUrl(url)
    /\ (uop = "isSearchUrl" /\ uret) => ~isProductUrl(url)
    /\ (uop = "isSearchUrl" /\ Unparseable(url)) => uret
    /\ (uop = "isProductUrl" /\ Unparseable(url)) => ~uret

\* C15 witness: isProductUrl was applied to a URL that parses, has the
\* signature of a product page and the signature of a search page, and
\* answered false.
C15_Witness ==
    /\ uop = "isProductUrl"
    /\ NewUrl(url).ok
    /\ ProductPatternMatches(NewUrl(url))
    /\ SearchPatternMatches(NewUrl(url))
    /\ ~uret

\* Whether the product at position i of list l has a source URL that
\* isSearchUrl takes for a search page.
HasSearchUrl(l, i) ==
    /\ kSource \in DOMAIN l[i].m
    /\ kUrl \in DOMAIN l[i].m[kSource].m
    /\ isSearchUrl(l[i].m[kSource].m[kUrl].s)

\* The positions of list l in rising order that are in set S.
PositionsIn(l, S) == SelectSeq([i \in 1..Len(l) |-> i], LAMBDA i : i \in S)

C28_KeptUrlsAreProductUrls ==
    uop = "filterProductsByUrl" =>
        \A k \in 1..Len(uret.validProducts) :
            SourceUrl(uret.validProducts[k]) # <<>>
                => isProductUrl(SourceUrl(uret.validProducts[k]))

(***************************************************************************)
(* Properties of the image resolver, checked under ImageSpec               *)
(***************************************************************************)
\* The fetches call number c has issued.
FetchesOf(c) == SelectSeq(fetchLog, LAMBDA f : f.call = c)

\* C17: one call of resolveProductImages issues page fetches only for the
\* records at positions 0..4 of its list, at most five of them, and every
\* record at position 5 or later is as it was passed in.
C17_OnlyLeadingRecordsResolved ==
    \A c \in 1..Len(calls) :
        /\ \A j \in 1..Len(FetchesOf(c)) : FetchesOf(c)[j].index \in 0..4
        /\ Len(FetchesOf(c)) <= 5
        /\ \A k \in 6..Len(calls[c].products) : calls[c].products[k] = calls[c].passed[k]

\* C17 witness: a call has returned that fetched the page of the record at
\* position 4 and left the record at position 5 without image, although that
\* record has a source URL for which the cache holds an image.
C17_Witness ==
    \E c \in 1..Len(calls) :
        /\ calls[c].returned
        /\ Len(calls[c].passed) > 5
        /\ \E j \in 1..Len(fetchLog) : fetchLog[j].call = c /\ fetchLog[j].index = 4
        /\ ~Truthy(Member(calls[c].products[6], kImageUrl))
        /\ SourceUrl(calls[c].passed[6]) \in DOMAIN imageCache
        /\ imageCache[SourceUrl(calls[c].passed[6])] # JNull

\* The positions of its list that call number c passes in this step by
\* looking a record up, the record whose page it awaited left aside.
AttemptedNow(c) ==
    {k \in 1..Len(calls'[c].products) :
        k < calls'[c].i /\ (c > Len(calls) \/ k > calls[c].i)}

\* C18: while the cache holds the negative marker for a source URL, a
\* resolution attempt for a product with that source URL and no image_url
\* issues no page fetch and leaves the product without image_url.
C18_NegativeMarkerStopsResolution ==
    [][\A u \in DOMAIN imageCache :
          imageCache[u] = JNull =>
             /\ \A j \in (Len(fetchLog) + 1)..Len(fetchLog') : fetchLog'[j].url # u
             /\ \A c \in 1..Len(calls') :
                   \A k \in AttemptedNow(c) :
                      (/\ SourceUrl(calls'[c].passed[k]) = u
                       /\ ~Truthy(Member(calls'[c].passed[k], kImageUrl)))
                          => ~Truthy(Member(calls'[c].products[k], kImageUrl))]_vars

\* C19: under any interleaving of calls the cache only moves from absent to
\* present for a key: an entry is never removed and its value never replaced
\* by another value.
C19_CacheEntriesAreFinal ==
    [][\A u \in DOMAIN imageCache : u \in DOMAIN imageCache' /\ imageCache'[u] = imageCache[u]]_vars

\* C20: for each source URL at most one page fetch is ever issued, by whatever
\* call and however the calls interleave.
C20_OneFetchPerUrl ==
    \A a, b \in 1..Len(fetchLog) : fetchLog[a].url = fetchLog[b].url => a = b

\* Whether this step ends the await of call number c and the call goes on
\* to the products that follow.
GoesOn(c) ==
    /\ calls[c].awaiting
    /\ calls'[c].i > calls[c].i
    /\ calls'[c].awaiting \/ calls'[c].returned
    /\ calls'[c].returned => calls'[c].i > Len(calls'[c].products) \/ PastLimit(calls'[c].i)
    /\ calls'[c].awaiting => ~PastLimit(calls'[c].i)

\* Whether this step records the negative marker for the URL call number c
\* awaited and leaves the product at that URL as it was, without image.
DegradesToNoImage(c) ==
    /\ AwaitedUrl(calls[c]) \in DOMAIN imageCache'
    /\ imageCache'[AwaitedUrl(calls[c])] = JNull
    /\ Len(calls'[c].products) = Len(calls[c].products)
    /\ calls'[c].products[calls[c].i] = calls[c].passed[calls[c].i]
    /\ ~Truthy(Member(calls'[c].products[calls[c].i], kImageUrl))

\* C21: when the fetch of a page fails, or the extraction from it, nothing
\* leaves resolveProductImages: the negative marker is recorded for the source
\* URL, the product stays without image, and the call goes on with the
\* products that follow within the bound, up to its return.
C21_FetchFailureIsContained ==
    [][FetchRejects =>
          \E c \in 1..Len(calls) :
             /\ \A d \in 1..Len(calls) : d # c => calls'[d] = calls[d]
             /\ GoesOn(c)
             /\ DegradesToNoImage(c)]_vars

\* C21 witness: a call has returned whose fetch for the product at position 3
\* failed or brought no image, so that the marker is recorded and the product
\* has no image, and which then fetched the page of the product at position 4.
C21_Witness ==
    \E c \in 1..Len(calls) :
        /\ calls[c].returned
        /\ \E j \in 1..Len(fetchLog) :
              /\ fetchLog[j].call = c
              /\ fetchLog[j].index = 3
              /\ fetchLog[j].url \in DOMAIN imageCache
              /\ imageCache[fetchLog[j].url] = JNull
        /\ ~Truthy(Member(calls[c].products[4], kImageUrl))
        /\ \E j \in 1..Len(fetchLog) : fetchLog[j].call = c /\ fetchLog[j].index = 4

\* The products a call went through: those before maxToResolve.
Processed(call) == SubSeq(call.products, 1, Min(Len(call.products), maxToResolve))

\* C23: the images a call of resolveProductImages returns hold no image
\* twice, whatever existingImages was, repeats included: first the images
\* passed in, in the order they are first seen, then the images of the
\* products gone through, in the order they are first seen.
C23_ImagesMergedWithoutRepeats ==
    \A c \in 1..Len(calls) :
        calls[c].returned
            => calls[c].images = Unique(calls[c].existing \o ImagesOf(Processed(calls[c])))

\* Product p without its image_url.
WithoutImage(p) == JObj([k \in DOMAIN p.m \ {kImageUrl} |-> p.m[k]])

\* Whether call number c has fetched a page, or asked the cache, for the
\* record at position k of its list.
Accessed(c, k) ==
    \/ \E j \in 1..Len(fetchLog) : fetchLog[j].call = c /\ fetchLog[j].index = k - 1
    \/ \E j \in 1..Len(calls[c].lookups) : calls[c].lookups[j] = k

\* C30: resolveProductImages changes nothing but the image_url of records
\* that had none: whatever the fetches bring, the list of a call has the
\* length and the order of the list passed, record by record the same but for
\* image_url; a record that had an image_url is as it was passed and caused
\* neither a fetch nor a look into the cache; a record with neither image_url
\* nor source URL is as it was passed.
C30_OnlyMissingImagesChange ==
    \A c \in 1..Len(calls) :
        /\ Len(calls[c].products) = Len(calls[c].passed)
        /\ \A k \in 1..Len(calls[c].passed) :
              /\ WithoutImage(calls[c].products[k]) = WithoutImage(calls[c].passed[k])
              /\ Truthy(Member(calls[c].passed[k], kImageUrl))
                    => calls[c].products[k] = calls[c].passed[k] /\ ~Accessed(c, k)
              /\ ~Truthy(Member(calls[c].passed[k], kImageUrl))
                        /\ SourceUrl(calls[c].passed[k]) = <<>>
                    => calls[c].products[k] = calls[c].passed[k] /\ ~Accessed(c, k)

\* C30 witness: a call has returned whose list began with a record without
\* image and source URL and a record with an image and a source URL; both are
\* as they were passed, and the third record, whose fetch brought an image,
\* differs from the one passed in its image_url.
C30_Witness ==
    \E c \in 1..Len(calls) :
        /\ calls[c].returned
        /\ Len(calls[c].passed) = 3
        /\ SourceUrl(calls[c].passed[1]) = <<>>
        /\ Truthy(Member(calls[c].passed[2], kImageUrl))
        /\ SourceUrl(calls[c].passed[2]) # <<>>
        /\ calls[c].products[1] = calls[c].passed[1]
        /\ calls[c].products[2] = calls[c].passed[2]
        /\ Accessed(c, 3)
        /\ Truthy(Member(calls[c].products[3], kImageUrl))
        /\ calls[c].products[3] # calls[c].passed[3]

(***************************************************************************)
(* Properties of the extraction from a page, checked under ExtractSpec     *)
(***************************************************************************)
\* The images of the page's tags named value by attribute attr, whatever the
\* order of the attributes; a tag with an empty content has none.
TagImages(html, attr, value) ==
    {toAbsoluteUrl(Captured(html.metas[i].content), PageUrlOne) :
        i \in {j \in 1..Len(html.metas) :
                  /\ html.metas[j].attr = attr
                  /\ html.metas[j].value = value
                  /\ html.metas[j].content # <<>>}}

\* The positions of the JSON-LD blocks that yield an image.
YieldingBlocks(html) ==
    {i \in 1..Len(html.scripts) : Truthy(ImageOfBlock(html.scripts[i]))}

\* The image of the first block, in the order of the document, that yields one.
FirstBlockImage(html) ==
    toAbsoluteUrl(ImageOfBlock(html.scripts[CHOOSE i \in YieldingBlocks(html) :
                                               \A j \in YieldingBlocks(html) : i <= j]).s,
                  PageUrlOne)

\* C22: extractImageFromHtml returns the Open Graph image whenever the page
\* has one; the Twitter image only when it has no Open Graph image; the image
\* of the first JSON-LD block of the document that yields one only when it
\* has neither; and null only when all three yield nothing.
C22_ExtractionPriority ==
    found # <<>> =>
        IF TagImages(document, "property", OgImage) # {}
        THEN found.t = "str" /\ found.s \in TagImages(document, "property", OgImage)
        ELSE IF TagImages(document, "name", TwitterImage) # {}
        THEN found.t = "str" /\ found.s \in TagImages(document, "name", TwitterImage)
        ELSE IF YieldingBlocks(document) # {}
        THEN found = JStr(FirstBlockImage(document))
        ELSE found = JNull

\* C22 witness: the page has no meta tag with an image, its first JSON-LD
\* block yields nothing and its second one does, and the image of the second
\* block was returned.
C22_Witness ==
    /\ found # <<>>
    /\ TagImages(document, "property", OgImage) = {}
    /\ TagImages(document, "name", TwitterImage) = {}
    /\ YieldingBlocks(document) = {2}
    /\ found = JStr(FirstBlockImage(document))

(***************************************************************************)
(* Properties of the search service, checked under SearchSpec              *)
(***************************************************************************)
\* Whether the request was answered with success.
Succeeded == request # <<>> /\ response.success

\* Whether the request was served by the shopping provider.
ServedBySerpApi == request # <<>> /\ ProviderOf(request, upstream.serpapiKey) = "serpapi"

\* The Product contract as far as the claim names it.
SatisfiesContract(product) ==
    /\ ValidName(Member(product, kName))
    /\ Member(Member(product, kSource), kUrl) # Undefined
          => IsUrlStr(Member(Member(product, kSource), kUrl))
    /\ Member(product, kImageUrl) # Undefined => IsUrlStr(Member(product, kImageUrl))
    /\ Member(product, kRating) # Undefined => ValidRating(Member(product, kRating))
    /\ ValidRelevance(Member(product, kRelevanceScore))

\* C13: every product of a successful response, of the model's path and of
\* the shopping path, satisfies the Product contract: a name of 3 to 200
\* characters, a source URL and an image URL that are well-formed when
\* present, a rating from 0 to 5 when present, a relevance score from 0 to 1.
C13_ResponseProductsSatisfyContract ==
    Succeeded => \A i \in 1..Len(response.products) : SatisfiesContract(response.products[i])

\* C14: the products of the shopping path have gone through the stages of the
\* model's path: the filter of non-products, the deduplication, the scoring
\* that replaces the provider's score, the sort, and the filter of search URLs.
C14_ShoppingPathIsNormalized ==
    Succeeded /\ ServedBySerpApi
        => response.products
              = Normalized(ProductsOfResults(upstream.results, <<"b", "r">>), request.max_results)

\* Whether the model answered the request with text.
AnsweredWith(text) ==
    request # <<>> /\ ~ServedBySerpApi /\ ~upstream.failed /\ upstream.content = text

UpstreamFailed == request # <<>> /\ upstream.failed

\* C25: a request ends in an error response exactly when the call of the
\* upstream provider failed; whatever goes wrong after the provider answered
\* (no document in the answer, invalid records, failed page fetches) leaves a
\* successful response, whose list of products may be empty.
C25_ErrorOnlyOnUpstreamFailure ==
    request # <<>> => (~response.success <=> UpstreamFailed)

\* The same on the model's path alone.
GeminiErrorOnlyOnUpstreamFailure ==
    request # <<>> /\ ~ServedBySerpApi => (~response.success <=> UpstreamFailed)

\* The model's path, where the answer held no document or a page fetch
\* failed, answers with success.
GeminiRecovers ==
    /\ request # <<>> /\ ~ServedBySerpApi /\ ~upstream.failed
    /\ response.success
    /\ response.products = <<>>
    /\ parseProducts(upstream.content).parseErrors # <<>>

====
